---- MODULE Spec2Model ----
(***************************************************************************)
(* Verification model of the enigma-core worker: the typed IPC dispatcher, *)
(* the contract state / delta engine, the patch encryption envelope and    *)
(* the principal-node (PTT) key exchange.                                  *)
(*                                                                         *)
(* Each subsystem has its own specification (SpecIpc, SpecChain, SpecData, *)
(* SpecPtt); the variables of the other subsystems stay at their initial   *)
(* value under it.                                                         *)
(***************************************************************************)
EXTENDS Integers, Sequences, FiniteSets, TLC

VARIABLES
    ipc_state,   \* "running" | "panicked": the dispatcher thread
    ipc_in,      \* frames read from the request/reply socket, in order
    ipc_out,     \* IpcMessage replies sent, in order
    ipc_res,     \* the handler result behind each reply, in order
    dt_op,       \* which data-engine call was made last
    dt_before,   \* ContractState `old` / the state a delta is applied to
    dt_after,    \* ContractState `new`
    dt_patch,    \* the StatePatch generate_delta returned
    dt_arg,      \* the StatePatch handed to apply_delta
    dt_applied,  \* what apply_delta returned and the state it left
    dt_enc,      \* the EncryptedPatch handed to StatePatch::decrypt
    dt_key,      \* the state key the patch was encrypted under
    dt_dec,      \* what StatePatch::decrypt returned, and under which key
    ch_addr,     \* the address of the deployed contract
    ch_key,      \* its state key
    ch_state,    \* its current ContractState in the worker
    ch_deltas,   \* the StatePatches produced for it, oldest first
    ch_encs,     \* the EncryptedPatches produced for it, oldest first
    ptt_dh,      \* number of ephemeral DH key pairs the enclave holds for PTT
    ptt_asked,   \* addresses listed in some GetPTTRequest so far
    ptt_n,       \* PTT requests and responses handled so far
    ptt_errors,  \* the IpcStatusResult list of the last PTTResponse
    state_keys,  \* STATE_KEYS: contract address -> state key
    ptt_last,    \* the last PTTResponse blob handled and STATE_KEYS before it
    ud_db,       \* the delta store: (address, index) pairs that hold a delta
    ud_last,     \* the last UpdateDeltas batch and the store before it
    ud_out,      \* the UpdateDeltasResult of that batch
    ud_n,        \* UpdateDeltas requests handled so far
    sk_file,     \* the sealed signing-key file on the host's disk
    sk_state,    \* the worker: "down", "up" or "failed" (boot returned an error)
    sk_key,      \* the signing key held in the enclave (0: none)
    sk_gen,      \* signing keys generated so far
    sk_boots,    \* boots so far
    sk_boot,     \* the last boot: the file it found, its unseal result, its outcome
    sk_reported, \* the signingKey of each GetRegistrationParams answer, in order
    sk_intact,   \* nothing but a successful first boot has touched the file
    wm_op,       \* the executor operation last run ("idle" before any)
    wm_in,       \* its input
    wm_out,      \* its outcome
    wm_memory,   \* the memory recorded in the ImportResolver it used
    wm_stored,   \* the contract's persisted state document
    ws_in,       \* worker selection: seed, workers, stakes, contract address, group size
    ws_local,    \* per node: the rest of its WorkerParams (block number, nonce)
    ws_out,      \* per node: what get_selected_workers returned there
    ep_epoch,    \* the Epoch record of the trusted region
    ep_last,     \* the last call on the epoch: its argument and result
    kp_nonce,    \* epoch keeper enclave: the nonce of the next epoch it creates
    kp_created,  \* the nonces of the epochs created so far
    kp_last,     \* the last set_worker_params call: argument, result, nonces before
    dh_keys,     \* DH_KEYS: user public key -> shared key
    km_pairs,    \* the number of ephemeral key pairs generated so far
    km_last,     \* the last NewTaskEncryptionKey call: argument, result, table before
    km_recent,   \* per user public key, the key pair of the last successful request
    gs_pc,       \* get_state: where the call stands
    gs_addr,     \* get_state: the contract address asked for
    gs_guard,    \* get_state: whether it holds the STATE_KEYS mutex
    gs_key,      \* get_state: the key found
    gs_enc,      \* get_state: the encrypted state the host returned
    gs_reads,    \* get_state: host DB reads made by the current call
    gs_result,   \* get_state: the result of the last call
    gs_db,       \* the host DB: address -> encrypted state
    gs_n,        \* get_state calls made
    sy_in,       \* symmetric codec: message, key, nonce option, what the RNG yields
    sy_op,       \* symmetric codec: the last call
    sy_enc,      \* the result of encrypt / encrypt_with_nonce
    sy_dec,      \* the bytes and key handed to decrypt, and its result
    ds_enc,      \* the EncryptedContractState handed to ContractState::decrypt
    ds_key,      \* the state key the state was encrypted under
    ds_dec,      \* what ContractState::decrypt returned, and under which key
    sd_op,       \* sealed document round trip: the last step made
    sd_doc,      \* the SealedDocumentStorage record that is sealed
    sd_log,      \* the 2048-byte sealed log in the enclave
    sd_file,     \* the file the log is saved to
    sd_res,      \* the results of seal, save, load and unseal
    mn_pc,       \* the worker process: where main is
    mn_exit,     \* its exit code once it has ended
    mn_cause,    \* what ended it
    wk_init,     \* write_key / read_key: the ContractState before any call
    wk_state,    \* the ContractState the calls are made on
    wk_written,  \* per key, the value of the last write_key, if any
    wk_read,     \* the last read_key and its result
    wk_n,        \* write_key calls made
    sv_state,    \* legacy surface server: "running" | "stopped" | "panicked"
    sv_in,       \* the requests it received, in order
    sv_out,      \* the replies it sent, in order
    sv_last      \* what handle returned for the last request

ipc_vars == <<ipc_state, ipc_in, ipc_out, ipc_res>>
dt_vars == <<dt_op, dt_before, dt_after, dt_patch, dt_arg, dt_applied, dt_enc, dt_key, dt_dec>>

ch_vars == <<ch_addr, ch_key, ch_state, ch_deltas, ch_encs>>
ptt_vars == <<ptt_dh, ptt_asked, ptt_n, ptt_errors, state_keys, ptt_last>>
ud_vars == <<ud_db, ud_last, ud_out, ud_n>>
sk_vars == <<sk_file, sk_state, sk_key, sk_gen, sk_boots, sk_boot, sk_reported, sk_intact>>
wm_vars == <<wm_op, wm_in, wm_out, wm_memory, wm_stored>>
ws_vars == <<ws_in, ws_local, ws_out>>
ep_vars == <<ep_epoch, ep_last>>
kp_vars == <<kp_nonce, kp_created, kp_last>>
km_vars == <<dh_keys, km_pairs, km_last, km_recent>>
sy_vars == <<sy_in, sy_op, sy_enc, sy_dec>>
ds_vars == <<ds_enc, ds_key, ds_dec>>
sd_vars == <<sd_op, sd_doc, sd_log, sd_file, sd_res>>
mn_vars == <<mn_pc, mn_exit, mn_cause>>
wk_vars == <<wk_init, wk_state, wk_written, wk_read, wk_n>>
sv_vars == <<sv_state, sv_in, sv_out, sv_last>>
x_vars == <<ds_vars, sd_vars, mn_vars, wk_vars, sv_vars>>
gs_vars == <<gs_pc, gs_addr, gs_guard, gs_key, gs_enc, gs_reads, gs_result, gs_db, gs_n>>

vars == <<ipc_vars, dt_vars, ch_vars, ptt_vars, ud_vars, sk_vars, wm_vars, ws_vars, ep_vars, kp_vars, km_vars, gs_vars, sy_vars, x_vars>>

(***************************************************************************)
(* Bounds of the model.                                                    *)
(***************************************************************************)
MaxReq == 3
MaxIndex == 2
MaxDeltas == 3
MaxPtt == 3
MaxBoots == 3
MaxOps == 2
MaxWorkers == 3
MaxEpochs == 3
MaxKeyPairs == 2
MaxLen == 2

(***************************************************************************)
(* 1. Typed IPC dispatcher (enigma-core/app/src/networking/messages.rs)    *)
(***************************************************************************)
Ids == {"id1", "id2"}
NoId == "<none>"

\* IpcRequest variants kept in the model (messages.rs:84-101).
ReqTypes == {"GetTip", "PTTResponse"}

\* What a frame on the socket can look like to serde.
\*   request       valid JSON, `id` and a `type` naming an IpcRequest variant
\*   unknown_type  valid JSON with an `id`, `type` missing / not a string /
\*                 naming no variant: the untagged IpcMessageKind matches nothing
\*   bad_json      not JSON at all
\*   not_utf8      bytes that are not UTF-8
Shapes == {"request", "unknown_type", "bad_json", "not_utf8"}

Frames ==
    [shape : {"request"}, id : Ids, type : ReqTypes]
        \cup [shape : {"unknown_type"}, id : Ids, type : {"NoSuchCommand"}]
        \cup [shape : {"bad_json", "not_utf8"}, id : {NoId}, type : {"<none>"}]

\* impl From<Message> for IpcMessage: msg.as_str().unwrap() and
\* serde_json::from_str(msg_str).expect(msg_str) both panic instead of
\* returning an error.
FromMessage(frame) ==
    IF frame.shape = "not_utf8" THEN [tag |-> "panic", at |-> "as_str().unwrap()"]
    ELSE IF frame.shape # "request" THEN [tag |-> "panic", at |-> "from_str().expect()"]
    ELSE [tag |-> "ok", id |-> frame.id, type |-> frame.type]

\* Error kinds a handler can fail with.
HandlerErrors == {"MissingKeyError", "ExecutionError"}

\* format!("{:?}", e): the Debug rendering of the error value.
DebugFmt(e) ==
    CASE e = "MissingKeyError" -> "MissingKeyError { key_type: \"State Key\" }"
      [] e = "ExecutionError"  -> "ExecutionError { code: \"\", err: \"trap\" }"
      [] OTHER                 -> "Error"

\* The results a handler for request type t can return: Ok(response of the
\* request's own variant) or Err(e).
HandlerResults(t) ==
    {[tag |-> "Ok", val |-> [type |-> t, body |-> "result"], err |-> "<none>"]}
        \cup {[tag |-> "Err", val |-> [type |-> "<none>", body |-> "<none>"], err |-> e] :
                e \in HandlerErrors}

\* A plausible slip: the Err arm drops the error value.
UnwrapOrErrorDropsError(res) ==
    IF res.tag = "Ok" THEN res.val ELSE [type |-> "Error", body |-> ""]

\* UnwrapError::unwrap_or_error for Result<IpcResponse, E>.
UnwrapOrError(res) ==
    IF res.tag = "Ok" THEN res.val ELSE [type |-> "Error", body |-> DebugFmt(res.err)]

\* IpcMessage::from_response.
FromResponse(res, id) == [id |-> id, side |-> "IpcResponse", kind |-> res]

\* handle_message for one frame that parses: route on the type, run the
\* handler, turn its result into a response, tag it with the request id.
HandleMessage(msg, res) == FromResponse(UnwrapOrError(res), msg.id)

IpcInit ==
    /\ ipc_state = "running"
    /\ ipc_in = <<>>
    /\ ipc_out = <<>>
    /\ ipc_res = <<>>

\* One turn of the dispatcher on a frame that deserializes.
IpcHandle ==
    /\ ipc_state = "running"
    /\ Len(ipc_in) < MaxReq
    /\ \E frame \in Frames :
        LET msg == FromMessage(frame) IN
        /\ msg.tag = "ok"
        /\ \E res \in HandlerResults(msg.type) :
            /\ ipc_in' = Append(ipc_in, frame)
            /\ ipc_res' = Append(ipc_res, res)
            /\ ipc_out' = Append(ipc_out, HandleMessage(msg, res))
    /\ UNCHANGED <<ipc_state, dt_vars, ch_vars, ptt_vars, ud_vars, sk_vars, wm_vars, ws_vars, ep_vars, kp_vars, km_vars, gs_vars, sy_vars, x_vars>>

\* One turn of the dispatcher on a frame that does not deserialize: the
\* conversion panics, nothing is sent and the thread is gone.
IpcPanic ==
    /\ ipc_state = "running"
    /\ Len(ipc_in) < MaxReq
    /\ \E frame \in Frames :
        /\ FromMessage(frame).tag = "panic"
        /\ ipc_in' = Append(ipc_in, frame)
    /\ ipc_state' = "panicked"
    /\ UNCHANGED <<ipc_out, ipc_res, dt_vars, ch_vars, ptt_vars, ud_vars, sk_vars, wm_vars, ws_vars, ep_vars, kp_vars, km_vars, gs_vars, sy_vars, x_vars>>

IpcNext == IpcHandle \/ IpcPanic

(***************************************************************************)
(* 1a. The worker process (enigma-core/app/src/main.rs)                    *)
(***************************************************************************)
NoExit == -1

MainIdle ==
    /\ mn_pc = "start"
    /\ mn_exit = NoExit
    /\ mn_cause = "-"

\* main, lines 50-59: init_enclave_wrapper() returns Ok or Err; on Err main
\* prints and returns.
MainInitEnclave ==
    /\ mn_pc = "start"
    /\ \E ok \in BOOLEAN :
        IF ok THEN /\ mn_pc' = "enclave"
                   /\ UNCHANGED <<mn_exit, mn_cause>>
        ELSE /\ mn_pc' = "exited"
             /\ mn_exit' = 0
             /\ mn_cause' = "init"
    /\ UNCHANGED <<ipc_vars, dt_vars, ch_vars, ptt_vars, ud_vars, sk_vars, wm_vars, ws_vars, ep_vars, kp_vars, km_vars, gs_vars, sy_vars, ds_vars, sd_vars, wk_vars, sv_vars>>

\* main, lines 60-63: the listener is built and run; when the socket cannot
\* be opened the future fails and wait().unwrap() panics.
MainOpenTransport ==
    /\ mn_pc = "enclave"
    /\ \E ok \in BOOLEAN :
        IF ok THEN /\ mn_pc' = "serving"
                   /\ UNCHANGED <<mn_exit, mn_cause>>
        ELSE /\ mn_pc' = "exited"
             /\ mn_exit' = 101
             /\ mn_cause' = "transport"
    /\ UNCHANGED <<ipc_vars, dt_vars, ch_vars, ptt_vars, ud_vars, sk_vars, wm_vars, ws_vars, ep_vars, kp_vars, km_vars, gs_vars, sy_vars, ds_vars, sd_vars, wk_vars, sv_vars>>

\* A panic inside the closure of line 62 unwinds through wait() and main.
MainUnwind ==
    /\ mn_pc = "serving"
    /\ ipc_state = "panicked"
    /\ mn_pc' = "exited"
    /\ mn_exit' = 101
    /\ mn_cause' = "request"
    /\ UNCHANGED <<ipc_vars, dt_vars, ch_vars, ptt_vars, ud_vars, sk_vars, wm_vars, ws_vars, ep_vars, kp_vars, km_vars, gs_vars, sy_vars, ds_vars, sd_vars, wk_vars, sv_vars>>

MainNext ==
    \/ MainInitEnclave
    \/ MainOpenTransport
    \/ (mn_pc = "serving" /\ IpcHandle)
    \/ (mn_pc = "serving" /\ IpcPanic)
    \/ MainUnwind

(***************************************************************************)
(* 1b. The legacy surface server                                           *)
(*     (enigma-core/app/src/networking/surface_server.rs)                  *)
(***************************************************************************)
\* The messages received.  utf8 and json tell whether the bytes are a string
\* and parse as JSON; cmd is v["cmd"] when it is a string (<<>> otherwise);
\* fields tells whether the execevm fields are all there; enclave is what the
\* calls into the enclave return while the request is handled.
SurfaceRequests ==
    {[utf8 |-> TRUE, json |-> TRUE, cmd |-> <<c>>, fields |-> f, enclave |-> e] :
        c \in {"execevm", "getregister", "stop", "nosuchcmd"}, f \in BOOLEAN, e \in {"Ok", "Err"}}
    \cup {[utf8 |-> TRUE, json |-> TRUE, cmd |-> <<>>, fields |-> FALSE, enclave |-> "Ok"],
          [utf8 |-> TRUE, json |-> FALSE, cmd |-> <<>>, fields |-> FALSE, enclave |-> "Ok"],
          [utf8 |-> FALSE, json |-> FALSE, cmd |-> <<>>, fields |-> FALSE, enclave |-> "Ok"]}

\* constants::Command from the command string.
CommandFrom(cmd) ==
    IF cmd \in {"execevm", "getregister", "stop"} THEN cmd ELSE "unknown"

HandlePanics == [tag |-> "panic", keep_running |-> TRUE, sent |-> <<>>]
HandleErr == [tag |-> "Err", keep_running |-> TRUE, sent |-> <<>>]
HandleOk(keep_running, result) == [tag |-> "Ok", keep_running |-> keep_running, sent |-> <<result>>]

\* ClientHandler::handle_unkown(msg).
HandleUnkown(msg) == [errored |-> FALSE, received |-> <<"json", msg.cmd[1]>>]

\* ClientHandler::handle_stop().
HandleStop == [errored |-> FALSE, reason |-> "stop request."]

\* ClientHandler::handle_execevm(eid, msg): unwrap_execevm unwraps every
\* field, exec_evm is the call into the enclave.
HandleExecevm(msg) ==
    IF ~msg.fields THEN "panic"
    ELSE IF msg.enclave = "Err" THEN "Err"
    ELSE "Ok"

\* ClientHandler::handle_get_register(eid).
HandleGetRegister(msg) == msg.enclave

\* ClientHandler::handle(eid, responder, msg): what it returns and what it
\* sends on the socket.
SurfaceHandle(msg) ==
    IF ~msg.json THEN HandleErr
    ELSE IF msg.cmd = <<>> THEN HandlePanics
    ELSE LET cmd == CommandFrom(msg.cmd[1]) IN
         CASE cmd = "execevm" ->
                  IF HandleExecevm(msg) # "Ok" THEN HandlePanics
                  ELSE HandleOk(TRUE, [errored |-> FALSE, result |-> "evm output"])
           [] cmd = "getregister" ->
                  IF HandleGetRegister(msg) # "Ok" THEN HandlePanics
                  ELSE HandleOk(TRUE, [errored |-> FALSE, quote |-> "quote"])
           [] cmd = "stop" -> HandleOk(FALSE, HandleStop)
           [] OTHER -> HandleOk(TRUE, HandleUnkown(msg))

NoHandle == [tag |-> "-", keep_running |-> TRUE, sent |-> <<>>]

SurfaceIdle ==
    /\ sv_state = "running"
    /\ sv_in = <<>>
    /\ sv_out = <<>>
    /\ sv_last = NoHandle

\* One turn of the loop of Server::run: a message is received and handled; the
\* loop breaks when handle returns Ok(false) and goes on after Ok(true) and
\* after Err.
SurfaceRun ==
    /\ sv_state = "running"
    /\ Len(sv_in) < MaxReq
    /\ \E msg \in SurfaceRequests :
        LET r == IF ~msg.utf8 THEN HandlePanics ELSE SurfaceHandle(msg) IN
        /\ sv_in' = Append(sv_in, msg)
        /\ sv_out' = sv_out \o r.sent
        /\ sv_last' = r
        /\ sv_state' = IF r.tag = "panic" THEN "panicked"
                       ELSE IF r.tag = "Ok" /\ ~r.keep_running THEN "stopped"
                       ELSE "running"
    /\ UNCHANGED <<ds_vars, sd_vars, mn_vars, wk_vars, ipc_vars, dt_vars, ch_vars, ptt_vars, ud_vars, sk_vars, wm_vars, ws_vars, ep_vars, kp_vars, km_vars, gs_vars, sy_vars>>

SurfaceNext == SurfaceRun

(***************************************************************************)
(* 2. Contract state, JSON patches and deltas (enigma-runtime-t/src/data)  *)
(***************************************************************************)
Addrs == {"addrA", "addrB"}

\* The JSON document of a contract: an object over two keys; Absent marks a
\* key the object does not hold.
KeyOrder == <<"code", "owner">>
Keys == {KeyOrder[i] : i \in 1..Len(KeyOrder)}
Absent == "<absent>"
Vals == {"157", "200"}
Docs == [Keys -> Vals \cup {Absent}]
EmptyDoc == [k \in Keys |-> Absent]

\* The operation json_patch::diff emits for one key.
DiffKey(before, after, k) ==
    IF before[k] = after[k] THEN <<>>
    ELSE IF before[k] = Absent THEN <<[op |-> "add", path |-> k, value |-> after[k]]>>
    ELSE IF after[k] = Absent THEN <<[op |-> "remove", path |-> k, value |-> Absent]>>
    ELSE <<[op |-> "replace", path |-> k, value |-> after[k]]>>

RECURSIVE DiffFrom(_, _, _)
DiffFrom(before, after, i) ==
    IF i > Len(KeyOrder) THEN <<>>
    ELSE DiffKey(before, after, KeyOrder[i]) \o DiffFrom(before, after, i + 1)

\* A diff that forgets removed keys.
JsonDiffForgetsRemoved(before, after) ==
    SelectSeq(DiffFrom(before, after, 1), LAMBDA o : o.op # "remove")

\* json_patch::diff(&before, &after).
JsonDiff(before, after) == DiffFrom(before, after, 1)

\* One RFC 6902 operation on a document: replace and remove need the path to
\* exist, add sets it.
ApplyOp(doc, o) ==
    IF o.op = "add" THEN [ok |-> TRUE, doc |-> [doc EXCEPT ![o.path] = o.value]]
    ELSE IF doc[o.path] = Absent THEN [ok |-> FALSE, doc |-> doc]
    ELSE IF o.op = "replace" THEN [ok |-> TRUE, doc |-> [doc EXCEPT ![o.path] = o.value]]
    ELSE [ok |-> TRUE, doc |-> [doc EXCEPT ![o.path] = Absent]]

RECURSIVE ApplyOps(_, _, _)
ApplyOps(orig, doc, ops) ==
    IF ops = <<>> THEN [ok |-> TRUE, doc |-> doc]
    ELSE LET r == ApplyOp(doc, Head(ops)) IN
         IF r.ok THEN ApplyOps(orig, r.doc, Tail(ops))
         ELSE [ok |-> FALSE, doc |-> orig]

\* json_patch::patch(&mut doc, &patch): all or nothing.
JsonPatch(doc, ops) == ApplyOps(doc, doc, ops)

\* Hash256: the all-zero hash, or SHA-256 of some bytes.
ZeroHash == <<"zero">>
Sha256(bytes) == <<"sha256", bytes>>

\* A hash over the whole serialized patch, previous hash included.
Sha256PatchOfWhole(delta) == Sha256(<<"msgpack", delta.patch, delta.previous_hash>>)

\* The bytes hashed for a patch: the serialized operations alone.
Sha256Patch(delta) == Sha256(<<"msgpack", delta.patch>>)

\* ContractState::new(address).
NewState(addr) ==
    [contract_id |-> addr, json |-> EmptyDoc, delta_hash |-> ZeroHash, delta_index |-> 0]

\* A numbering that reuses the state's own index.
NextIndexSame(old) == old.delta_index

\* The index generate_delta gives the delta made from state `old`.
NextIndex(old) == old.delta_index + 1

\* ContractState::generate_delta(&old, &new), for two states of one contract.
GenerateDelta(old, new) ==
    [patch |-> JsonDiff(old.json, new.json), previous_hash |-> old.delta_hash,
     contract_id |-> old.contract_id, index |-> NextIndex(old)]

\* ContractState::apply_delta(&mut self, &delta): the result and the state left.
ApplyDelta(state, delta) ==
    IF delta.contract_id # state.contract_id \/ delta.previous_hash # state.delta_hash
    THEN [ok |-> FALSE, state |-> state]
    ELSE LET r == JsonPatch(state.json, delta.patch) IN
         IF ~r.ok THEN [ok |-> FALSE, state |-> state]
         ELSE [ok |-> TRUE,
               state |-> [state EXCEPT !.json = r.doc,
                                       !.delta_hash = Sha256Patch(delta),
                                       !.delta_index = delta.index]]

\* A write that replaces the whole document by the one key.
WriteKeyReplacesDocument(state, key, value) ==
    [state EXCEPT !.json = [EmptyDoc EXCEPT ![key] = value]]

\* ContractState::write_key(&mut self, key, value): the state left; the call
\* returns Ok(()).
WriteKey(state, key, value) == [state EXCEPT !.json[key] = value]

\* ContractState::read_key::<T>(&self, key): the value under the key, or an
\* error when the document holds none.
ReadKey(state, key) ==
    IF state.json[key] = Absent THEN [ok |-> FALSE, val |-> Absent]
    ELSE [ok |-> TRUE, val |-> state.json[key]]

(***************************************************************************)
(* 3. Symmetric codec (enigma-crypto/src/symmetric.rs) and the encrypted   *)
(*    patch envelope                                                       *)
(***************************************************************************)
StateKeys == {"key1", "key2"}
Ivs == {"iv1", "iv2"}
EmptyAad == <<>>

\* The GCM tag over (aad, ciphertext) under (key, iv).
GcmTag(key, iv, aad, body) == <<"tag", key, iv, aad, body>>

\* encrypt_with_nonce(message, key, Some(iv)): ciphertext || tag || iv, sealed
\* with Aad::empty().
EncryptWithNonce(message, key, iv) ==
    LET body == <<"ctr", key, iv, message>> IN
    [body |-> body, tag |-> GcmTag(key, iv, EmptyAad, body), iv |-> iv]

\* decrypt(cipheriv, key): opened with Aad::empty().
Decrypt(cipheriv, key) ==
    IF cipheriv.tag # GcmTag(key, cipheriv.iv, EmptyAad, cipheriv.body)
    THEN [ok |-> FALSE, err |-> "DecryptionError", val |-> <<>>]
    ELSE [ok |-> TRUE, err |-> "<none>", val |-> cipheriv.body[4]]

\* The plaintext of an encrypted patch: the operations and the previous hash.
SerializePatch(delta) == <<"msgpack", delta.patch, delta.previous_hash>>

\* StatePatch::encrypt_with_nonce(key, Some(iv)).
EncryptPatch(delta, key, iv) ==
    [data |-> EncryptWithNonce(SerializePatch(delta), key, iv),
     contract_id |-> delta.contract_id, index |-> delta.index]

NoPatch ==
    [patch |-> <<>>, previous_hash |-> ZeroHash, contract_id |-> "<none>", index |-> 0]

\* StatePatch::decrypt(enc, key).
DecryptPatch(enc, key) ==
    LET d == Decrypt(enc.data, key) IN
    IF ~d.ok THEN [ok |-> FALSE, err |-> d.err, val |-> NoPatch]
    ELSE [ok |-> TRUE, err |-> "<none>",
          val |-> [patch |-> d.val[2], previous_hash |-> d.val[3],
                   contract_id |-> enc.contract_id, index |-> enc.index]]

\* The plaintext of an encrypted state: the document, the delta hash and the
\* delta index.
SerializeState(state) == <<"msgpack", state.json, state.delta_hash, state.delta_index>>

\* ContractState::encrypt_with_nonce(key, Some(iv)).
ContractStateEncrypt(state, key, iv) ==
    [contract_id |-> state.contract_id, json |-> EncryptWithNonce(SerializeState(state), key, iv)]

\* A decryption that takes the document from the plaintext and the defaults
\* for the delta hash and the delta index.
ContractStateDecryptDefaults(enc, key) ==
    LET d == Decrypt(enc.json, key) IN
    IF ~d.ok THEN [ok |-> FALSE, err |-> d.err, val |-> NewState("<none>")]
    ELSE [ok |-> TRUE, err |-> "<none>",
          val |-> [NewState(enc.contract_id) EXCEPT !.json = d.val[2]]]

\* ContractState::decrypt(enc, key).
ContractStateDecrypt(enc, key) ==
    LET d == Decrypt(enc.json, key) IN
    IF ~d.ok THEN [ok |-> FALSE, err |-> d.err, val |-> NewState("<none>")]
    ELSE [ok |-> TRUE, err |-> "<none>",
          val |-> [contract_id |-> enc.contract_id, json |-> d.val[2],
                   delta_hash |-> d.val[3], delta_index |-> d.val[4]]]

(***************************************************************************)
(* 4. The data engine's calls on drawn inputs                              *)
(***************************************************************************)
SampleHash == Sha256(<<"msgpack", <<[op |-> "add", path |-> "code", value |-> "157"]>> >>)
Hashes == {ZeroHash, SampleHash}

StatesIn ==
    [contract_id : Addrs, json : Docs, delta_hash : Hashes, delta_index : 0..MaxIndex]

NoEnc == EncryptPatch(NoPatch, "<none>", "<none>")
NoDec == [key |-> "<none>", res |-> [ok |-> FALSE, err |-> "<none>", val |-> NoPatch]]

NoEncState == ContractStateEncrypt(NewState("<none>"), "<none>", "<none>")
NoStateDec == [key |-> "<none>", res |-> [ok |-> FALSE, err |-> "<none>", val |-> NewState("<none>")]]

\* No state has gone through the codec.
StateCodecIdle ==
    /\ ds_enc = NoEncState
    /\ ds_key = "<none>"
    /\ ds_dec = NoStateDec

Unwritten == "<unwritten>"
NoRead == [key |-> "<none>", res |-> [ok |-> FALSE, val |-> Absent]]

WriteIdle ==
    /\ wk_init = NewState("<none>")
    /\ wk_state = NewState("<none>")
    /\ wk_written = [k \in Keys |-> Unwritten]
    /\ wk_read = NoRead
    /\ wk_n = 0

\* A ContractState, drawn.
WriteInit ==
    /\ wk_init \in StatesIn
    /\ wk_state = wk_init
    /\ wk_written = [k \in Keys |-> Unwritten]
    /\ wk_read = NoRead
    /\ wk_n = 0

\* con.write_key(key, &value).
WriteKeyCall ==
    /\ wk_n < MaxOps
    /\ \E k \in Keys, v \in Vals :
        /\ wk_state' = WriteKey(wk_state, k, v)
        /\ wk_written' = [wk_written EXCEPT ![k] = v]
    /\ wk_n' = wk_n + 1
    /\ UNCHANGED <<wk_init, wk_read, ds_vars, sd_vars, mn_vars, sv_vars, ipc_vars, dt_vars, ch_vars, ptt_vars, ud_vars, sk_vars, wm_vars, ws_vars, ep_vars, kp_vars, km_vars, gs_vars, sy_vars>>

\* con.read_key(key).
ReadKeyCall ==
    /\ \E k \in Keys : wk_read' = [key |-> k, res |-> ReadKey(wk_state, k)]
    /\ UNCHANGED <<wk_init, wk_state, wk_written, wk_n, ds_vars, sd_vars, mn_vars, sv_vars, ipc_vars, dt_vars, ch_vars, ptt_vars, ud_vars, sk_vars, wm_vars, ws_vars, ep_vars, kp_vars, km_vars, gs_vars, sy_vars>>

WriteNext == WriteKeyCall \/ ReadKeyCall

DataIdle ==
    /\ dt_op = "idle"
    /\ dt_before = NewState("<none>")
    /\ dt_after = NewState("<none>")
    /\ dt_patch = NoPatch
    /\ dt_arg = NoPatch
    /\ dt_applied = [ok |-> FALSE, state |-> NewState("<none>")]
    /\ dt_enc = NoEnc
    /\ dt_key = "<none>"
    /\ dt_dec = NoDec

\* Two states of one contract, drawn.
DataInit ==
    /\ dt_op = "input"
    /\ dt_before \in StatesIn
    /\ dt_after \in {s \in StatesIn :
                        /\ s.contract_id = dt_before.contract_id
                        /\ s.delta_hash = ZeroHash
                        /\ s.delta_index \in {dt_before.delta_index,
                                              dt_before.delta_index + 1}}
    /\ dt_patch = NoPatch
    /\ dt_arg = NoPatch
    /\ dt_applied = [ok |-> FALSE, state |-> dt_before]
    /\ dt_enc = NoEnc
    /\ dt_key = "<none>"
    /\ dt_dec = NoDec

\* ContractState::generate_delta(&before, &after).
DtGenerate ==
    /\ dt_op = "input"
    /\ dt_patch' = GenerateDelta(dt_before, dt_after)
    /\ dt_op' = "generated"
    /\ UNCHANGED <<dt_before, dt_after, dt_arg, dt_applied, dt_enc, dt_key, dt_dec, ipc_vars, ch_vars, ptt_vars, ud_vars, sk_vars, wm_vars, ws_vars, ep_vars, kp_vars, km_vars, gs_vars, sy_vars, x_vars>>

\* The patches apply_delta is tried on: the generated one, and the same with
\* another address, previous hash, index or operation list.
PatchVariants(p) ==
    {[patch |-> ops, previous_hash |-> h, contract_id |-> a, index |-> i] :
        ops \in {p.patch, <<[op |-> "remove", path |-> "code", value |-> Absent]>>},
        h \in Hashes, a \in Addrs, i \in 0..(MaxIndex + 1)}

\* before.apply_delta(&d).
DtApply ==
    /\ dt_op = "generated"
    /\ \E d \in PatchVariants(dt_patch) :
        /\ dt_arg' = d
        /\ dt_applied' = ApplyDelta(dt_before, d)
    /\ dt_op' = "applied"
    /\ UNCHANGED <<dt_before, dt_after, dt_patch, dt_enc, dt_key, dt_dec, ipc_vars, ch_vars, ptt_vars, ud_vars, sk_vars, wm_vars, ws_vars, ep_vars, kp_vars, km_vars, gs_vars, sy_vars, x_vars>>

\* patch.encrypt_with_nonce(key, Some(iv)).
DtEncrypt ==
    /\ dt_op = "generated"
    /\ \E k \in StateKeys, iv \in Ivs :
        /\ dt_enc' = EncryptPatch(dt_patch, k, iv)
        /\ dt_key' = k
    /\ dt_op' = "encrypted"
    /\ UNCHANGED <<dt_before, dt_after, dt_patch, dt_arg, dt_applied, dt_dec, ipc_vars, ch_vars, ptt_vars, ud_vars, sk_vars, wm_vars, ws_vars, ep_vars, kp_vars, km_vars, gs_vars, sy_vars, x_vars>>

\* StatePatch::decrypt(enc, key) on the envelope as stored by the host, which
\* can rewrite the address and the index next to the ciphertext.
DtDecrypt ==
    /\ dt_op = "encrypted"
    /\ \E a \in Addrs, i \in 0..(MaxIndex + 1), k \in StateKeys :
        LET enc == [dt_enc EXCEPT !.contract_id = a, !.index = i] IN
        /\ dt_enc' = enc
        /\ dt_dec' = [key |-> k, res |-> DecryptPatch(enc, k)]
    /\ dt_op' = "decrypted"
    /\ UNCHANGED <<dt_before, dt_after, dt_patch, dt_arg, dt_applied, dt_key, ipc_vars, ch_vars, ptt_vars, ud_vars, sk_vars, wm_vars, ws_vars, ep_vars, kp_vars, km_vars, gs_vars, sy_vars, x_vars>>

\* before.encrypt_with_nonce(key, Some(iv)).
DtEncryptState ==
    /\ dt_op = "input"
    /\ \E k \in StateKeys, iv \in Ivs :
        /\ ds_enc' = ContractStateEncrypt(dt_before, k, iv)
        /\ ds_key' = k
    /\ dt_op' = "state encrypted"
    /\ UNCHANGED <<dt_before, dt_after, dt_patch, dt_arg, dt_applied, dt_enc, dt_key, dt_dec, ds_dec, sd_vars, mn_vars, wk_vars, sv_vars, ipc_vars, ch_vars, ptt_vars, ud_vars, sk_vars, wm_vars, ws_vars, ep_vars, kp_vars, km_vars, gs_vars, sy_vars>>

\* ContractState::decrypt(enc, key) on the encrypted state as stored by the
\* host, which can rewrite the address next to the ciphertext.
DtDecryptState ==
    /\ dt_op = "state encrypted"
    /\ \E a \in Addrs, k \in StateKeys :
        LET enc == [ds_enc EXCEPT !.contract_id = a] IN
        /\ ds_enc' = enc
        /\ ds_dec' = [key |-> k, res |-> ContractStateDecrypt(enc, k)]
    /\ dt_op' = "state decrypted"
    /\ UNCHANGED <<dt_before, dt_after, dt_patch, dt_arg, dt_applied, dt_enc, dt_key, dt_dec, ds_key, sd_vars, mn_vars, wk_vars, sv_vars, ipc_vars, ch_vars, ptt_vars, ud_vars, sk_vars, wm_vars, ws_vars, ep_vars, kp_vars, km_vars, gs_vars, sy_vars>>

DataNext == DtGenerate \/ DtApply \/ DtEncrypt \/ DtDecrypt \/ DtEncryptState \/ DtDecryptState

(***************************************************************************)
(* 5. Deploy and execute: the delta chain of one contract                  *)
(***************************************************************************)
ChainIdle ==
    /\ ch_addr = "<none>"
    /\ ch_key = "<none>"
    /\ ch_state = NewState("<none>")
    /\ ch_deltas = <<>>
    /\ ch_encs = <<>>

\* The delta of a run that took the contract from state `old` to document
\* `doc`, and the state the worker keeps afterwards.
ProduceDelta(old, doc) ==
    LET new == [old EXCEPT !.json = doc]
        delta == GenerateDelta(old, new)
    IN  [delta |-> delta,
         state |-> [new EXCEPT !.delta_hash = Sha256Patch(delta),
                               !.delta_index = delta.index]]

\* DeploySecretContract: the constructor runs on ContractState::new(address).
Deploy ==
    /\ ch_addr = "<none>"
    /\ \E addr \in Addrs, key \in StateKeys, doc \in Docs, iv \in Ivs :
        LET p == ProduceDelta(NewState(addr), doc) IN
        /\ ch_addr' = addr
        /\ ch_key' = key
        /\ ch_state' = p.state
        /\ ch_deltas' = <<p.delta>>
        /\ ch_encs' = <<EncryptPatch(p.delta, key, iv)>>
    /\ UNCHANGED <<ipc_vars, dt_vars, ptt_vars, ud_vars, sk_vars, wm_vars, ws_vars, ep_vars, kp_vars, km_vars, gs_vars, sy_vars, x_vars>>

\* ComputeTask: a function runs on the contract's current state.
Execute ==
    /\ ch_addr # "<none>"
    /\ Len(ch_deltas) < MaxDeltas
    /\ \E doc \in Docs, iv \in Ivs :
        LET p == ProduceDelta(ch_state, doc) IN
        /\ ch_state' = p.state
        /\ ch_deltas' = Append(ch_deltas, p.delta)
        /\ ch_encs' = Append(ch_encs, EncryptPatch(p.delta, ch_key, iv))
    /\ UNCHANGED <<ch_addr, ch_key, ipc_vars, dt_vars, ptt_vars, ud_vars, sk_vars, wm_vars, ws_vars, ep_vars, kp_vars, km_vars, gs_vars, sy_vars, x_vars>>

ChainNext == Deploy \/ Execute

(***************************************************************************)
(* 6. Principal-node protocol (PTT)                                        *)
(***************************************************************************)
NoKey == "<no key>"

PttIdle ==
    /\ ptt_dh = 0
    /\ ptt_asked = {}
    /\ ptt_n = 0
    /\ ptt_errors = {}
    /\ state_keys = [a \in Addrs |-> NoKey]
    /\ ptt_last = [seen |-> FALSE, opened |-> FALSE, entries |-> {},
                   before |-> [a \in Addrs |-> NoKey]]

\* Status: -1 is failure, 0 success.
FAILED == -1
PASSED == 0

\* IpcStatusResult { address, key, status }.
IpcStatusResult(address, key, status) ==
    [address |-> address, key |-> key, status |-> status]

\* The (address, state key) entries a response blob can carry; `valid` is
\* whether the entry's key material deserializes.
PttEntries == [address : Addrs, key : StateKeys, valid : BOOLEAN]

\* Responses: a set of entries with at most one entry per address, sealed
\* with a tag that verifies under the worker's DH key or does not.
PttResponses ==
    {r \in [mac_ok : BOOLEAN, entries : SUBSET PttEntries] :
        /\ r.entries # {}
        /\ \A e1, e2 \in r.entries : e1.address = e2.address => e1 = e2}

\* GetPTTRequest { addresses }: ecall_ptt_req(eid, retval, sig, serialized_ptr)
\* is handed no address, so the enclave keeps an ephemeral key pair and
\* nothing about the addresses asked for.
GetPTTRequest ==
    /\ ptt_n + ud_n < MaxPtt
    /\ \E addrs \in SUBSET Addrs :
        /\ addrs # {}
        /\ ptt_asked' = ptt_asked \cup addrs
    /\ ptt_dh' = ptt_dh + 1
    /\ ptt_n' = ptt_n + 1
    /\ UNCHANGED <<ptt_errors, state_keys, ptt_last, ipc_vars, dt_vars, ch_vars, ud_vars, sk_vars, wm_vars, ws_vars, ep_vars, kp_vars, km_vars, gs_vars, sy_vars, x_vars>>

\* The keys a response installs: every valid entry of a response that decrypts.
InstallKeys(keys, r) ==
    [a \in Addrs |->
        IF \E e \in r.entries : e.address = a /\ e.valid
        THEN (CHOOSE e \in r.entries : e.address = a /\ e.valid).key
        ELSE keys[a]]

\* Failed entries answered with their address only.
PttErrorsDropped(entries) == {}

\* The IpcStatusResult list for the entries that failed.
PttErrors(entries) == {IpcStatusResult(e.address, "None", FAILED) : e \in entries}

\* PTTResponse { response }: ecall_ptt_res(eid, retval, msg_ptr, msg_len).
PTTResponse ==
    /\ ptt_n + ud_n < MaxPtt
    /\ \E r \in PttResponses :
        IF ptt_dh > 0 /\ r.mac_ok
        THEN /\ state_keys' = InstallKeys(state_keys, r)
             /\ ptt_errors' = PttErrors({x \in r.entries : ~x.valid})
             /\ ptt_last' = [seen |-> TRUE, opened |-> TRUE, entries |-> r.entries,
                             before |-> state_keys]
        ELSE /\ state_keys' = state_keys
             /\ ptt_errors' = PttErrors(r.entries)
             /\ ptt_last' = [seen |-> TRUE, opened |-> FALSE, entries |-> r.entries,
                             before |-> state_keys]
    /\ ptt_n' = ptt_n + 1
    /\ UNCHANGED <<ptt_dh, ptt_asked, ipc_vars, dt_vars, ch_vars, ud_vars, sk_vars, wm_vars, ws_vars, ep_vars, kp_vars, km_vars, gs_vars, sy_vars, x_vars>>

PttNext == GetPTTRequest \/ PTTResponse

(***************************************************************************)
(* 7. UpdateDeltas: a per-address batch on the delta store                 *)
(***************************************************************************)
UpdIdle ==
    /\ ud_db = {}
    /\ ud_last = [deltas |-> <<>>, before |-> {}]
    /\ ud_out = [status |-> PASSED, errors |-> <<>>]
    /\ ud_n = 0

\* IpcDelta { address, key, delta }; `stores` is whether the entry's address
\* and delta decode and the store accepts the write.
IpcDeltas == [address : Addrs, key : {1}, stores : BOOLEAN]
UpdBatches == {<<d>> : d \in IpcDeltas} \cup {<<d1, d2>> : d1 \in IpcDeltas, d2 \in IpcDeltas}

RECURSIVE UpdateFrom(_, _, _, _)

\* A batch that gives up at its first failing entry.
UpdateFromAborts(deltas, i, db, errors) ==
    IF i > Len(deltas) THEN [db |-> db, errors |-> errors]
    ELSE IF deltas[i].stores
         THEN UpdateFrom(deltas, i + 1, db \cup {<<deltas[i].address, deltas[i].key>>}, errors)
         ELSE [db |-> db,
               errors |-> Append(errors, IpcStatusResult(deltas[i].address, deltas[i].key, FAILED))]

\* The entries from the i-th on, one after the other: a failing entry adds an
\* IpcStatusResult and the loop goes on.
UpdateFrom(deltas, i, db, errors) ==
    IF i > Len(deltas) THEN [db |-> db, errors |-> errors]
    ELSE IF deltas[i].stores
         THEN UpdateFrom(deltas, i + 1, db \cup {<<deltas[i].address, deltas[i].key>>}, errors)
         ELSE UpdateFrom(deltas, i + 1, db,
                         Append(errors, IpcStatusResult(deltas[i].address, deltas[i].key, FAILED)))

\* UpdateDeltas { deltas } -> UpdateDeltasResult { status, errors }.
UpdateDeltas ==
    /\ ptt_n + ud_n < MaxPtt
    /\ \E deltas \in UpdBatches :
        LET out == UpdateFrom(deltas, 1, ud_db, <<>>) IN
        /\ ud_db' = out.db
        /\ ud_out' = [status |-> IF out.errors = <<>> THEN PASSED ELSE FAILED,
                      errors |-> out.errors]
        /\ ud_last' = [deltas |-> deltas, before |-> ud_db]
    /\ ud_n' = ud_n + 1
    /\ UNCHANGED <<ipc_vars, dt_vars, ch_vars, ptt_vars, sk_vars, wm_vars, ws_vars, ep_vars, kp_vars, km_vars, gs_vars, sy_vars, x_vars>>

BatchNext == GetPTTRequest \/ PTTResponse \/ UpdateDeltas

(***************************************************************************)
(* 8. Sealed key store: the worker's signing key across boots              *)
(***************************************************************************)
\* What has become of a sealed log since it was written.
LogStates == {"ok", "mac_mismatch", "malformed"}

NoDoc == [version |-> 0, data |-> 0]
NoLog == [doc |-> NoDoc, integrity |-> "malformed"]
NoFile == [exists |-> FALSE, log |-> NoLog]

\* SealedDocumentStorage::seal: the sealed log of a document.
Seal(doc) == [doc |-> doc, integrity |-> "ok"]

\* An unseal that hands out the payload whatever the MAC says.
UnsealIgnoresMac(log) ==
    IF log.integrity = "malformed" THEN [tag |-> "Err", doc |-> NoDoc]
    ELSE [tag |-> "Some", doc |-> log.doc]

\* SealedDocumentStorage::unseal: Err, Ok(None) or Ok(Some(document)).
Unseal(log) ==
    IF log.integrity = "malformed" THEN [tag |-> "Err", doc |-> NoDoc]
    ELSE IF log.integrity = "mac_mismatch" THEN [tag |-> "None", doc |-> NoDoc]
    ELSE [tag |-> "Some", doc |-> log.doc]

\* What the host's file system does to a write.
IoOutcomes == {"ok", "create_fails", "write_fails"}

\* save_sealed_document(path, log).
SaveSealedDocument(file, log, io) ==
    CASE io = "ok" -> [ok |-> TRUE, file |-> [exists |-> TRUE, log |-> log]]
      [] io = "create_fails" -> [ok |-> FALSE, file |-> file]
      [] io = "write_fails" -> [ok |-> FALSE, file |-> [exists |-> TRUE, log |-> NoLog]]

\* A check that never finds the file.
IsDocumentNever(file) == FALSE

\* is_document(path).
IsDocument(file) == file.exists

\* load_sealed_document(path, buffer).
LoadSealedDocument(file) ==
    IF file.exists THEN [ok |-> TRUE, log |-> file.log] ELSE [ok |-> FALSE, log |-> NoLog]

SealIdle ==
    /\ sk_file = NoFile
    /\ sk_state = "down"
    /\ sk_key = 0
    /\ sk_gen = 0
    /\ sk_boots = 0
    /\ sk_boot = [found |-> NoFile, unsealed |-> "-", outcome |-> "-"]
    /\ sk_reported = <<>>
    /\ sk_intact = TRUE

\* Boot: with no sealed file a key is generated, sealed and saved; with one it
\* is loaded and unsealed, and anything but a document is an error.
Boot ==
    /\ sk_state = "down"
    /\ sk_boots < MaxBoots
    /\ sk_boots' = sk_boots + 1
    /\ IF ~IsDocument(sk_file)
       THEN \E io \in IoOutcomes :
            LET key == sk_gen + 1
                saved == SaveSealedDocument(sk_file, Seal([version |-> 1, data |-> key]), io)
            IN  /\ sk_gen' = key
                /\ sk_file' = saved.file
                /\ sk_state' = IF saved.ok THEN "up" ELSE "failed"
                /\ sk_key' = IF saved.ok THEN key ELSE 0
                /\ sk_boot' = [found |-> sk_file, unsealed |-> "-",
                               outcome |-> IF saved.ok THEN "generated" ELSE "error"]
                /\ sk_intact' = (sk_intact /\ saved.ok)
       ELSE LET loaded == LoadSealedDocument(sk_file)
                res == Unseal(loaded.log)
                good == loaded.ok /\ res.tag = "Some"
            IN  /\ sk_state' = IF good THEN "up" ELSE "failed"
                /\ sk_key' = IF good THEN res.doc.data ELSE 0
                /\ sk_boot' = [found |-> sk_file, unsealed |-> res.tag,
                               outcome |-> IF good THEN "loaded" ELSE "error"]
                /\ UNCHANGED <<sk_gen, sk_file, sk_intact>>
    /\ UNCHANGED <<sk_reported, ipc_vars, dt_vars, ch_vars, ptt_vars, ud_vars, wm_vars, ws_vars, ep_vars, kp_vars, km_vars, gs_vars, sy_vars, x_vars>>

\* GetRegistrationParams: the answer carries the signing key.
GetRegistrationParams ==
    /\ sk_state = "up"
    /\ Len(sk_reported) < sk_boots
    /\ sk_reported' = Append(sk_reported, sk_key)
    /\ UNCHANGED <<sk_file, sk_state, sk_key, sk_gen, sk_boots, sk_boot, sk_intact,
                   ipc_vars, dt_vars, ch_vars, ptt_vars, ud_vars, wm_vars, ws_vars, ep_vars, kp_vars, km_vars, gs_vars, sy_vars, x_vars>>

\* The process ends; the enclave's memory is gone.
Shutdown ==
    /\ sk_state # "down"
    /\ sk_state' = "down"
    /\ sk_key' = 0
    /\ UNCHANGED <<sk_file, sk_gen, sk_boots, sk_boot, sk_reported, sk_intact,
                   ipc_vars, dt_vars, ch_vars, ptt_vars, ud_vars, wm_vars, ws_vars, ep_vars, kp_vars, km_vars, gs_vars, sy_vars, x_vars>>

\* The host rewrites bytes of the sealed file.
TamperFile ==
    /\ sk_file.exists
    /\ sk_file.log.integrity = "ok"
    /\ \E i \in LogStates \ {"ok"} :
        sk_file' = [sk_file EXCEPT !.log.integrity = i]
    /\ sk_intact' = FALSE
    /\ UNCHANGED <<sk_state, sk_key, sk_gen, sk_boots, sk_boot, sk_reported,
                   ipc_vars, dt_vars, ch_vars, ptt_vars, ud_vars, wm_vars, ws_vars, ep_vars, kp_vars, km_vars, gs_vars, sy_vars, x_vars>>

\* The host removes the sealed file.
RemoveFile ==
    /\ sk_file.exists
    /\ sk_file' = NoFile
    /\ sk_intact' = FALSE
    /\ UNCHANGED <<sk_state, sk_key, sk_gen, sk_boots, sk_boot, sk_reported,
                   ipc_vars, dt_vars, ch_vars, ptt_vars, ud_vars, wm_vars, ws_vars, ep_vars, kp_vars, km_vars, gs_vars, sy_vars, x_vars>>

SealNext == Boot \/ GetRegistrationParams \/ Shutdown \/ TamperFile \/ RemoveFile

(***************************************************************************)
(* 8a. One document through seal, save, load and unseal                    *)
(*     (enigma-tools-t/src/document_storage_t.rs)                          *)
(***************************************************************************)
SEAL_LOG_SIZE == 2048

\* The records sealed: a version and an array of `len` bytes, all `byte`.
DocVersions == {0, 1, 4660}
DocLens == {32, 1484, 1488, 2048}
DocBytes == {0, 105}
Documents == [version : DocVersions, data : [len : DocLens, byte : DocBytes]]

\* size_of::<SealedDocumentStorage<[u8; len]>>(): a u32 and the array.
SizeOfDocument(doc) == 4 + doc.data.len

\* The size of the sealed form: the sgx_sealed_data_t header, no additional
\* text, and the encrypted record.
SealedDataSize(doc) == 560 + SizeOfDocument(doc)

\* to_sealed_log(&sealed_data, sealed_log, sealed_log_size): the sealed data
\* copied into the log, or None and the log untouched when it does not fit.
ToSealedLog(sealed_data, size, sealed_log, sealed_log_size) ==
    IF sealed_log_size < size THEN [some |-> FALSE, log |-> sealed_log]
    ELSE [some |-> TRUE, log |-> sealed_data]

\* SealedDocumentStorage::seal(&self, sealed_log_out): the result and the log.
DocumentSeal(doc, sealed_log_out) ==
    [ok |-> TRUE, log |-> ToSealedLog(Seal(doc), SealedDataSize(doc), sealed_log_out, SEAL_LOG_SIZE).log]

NoDocResults == [seal |-> "-", save |-> "-", load |-> "-", unseal |-> "-", doc |-> NoDoc]

DocIdle ==
    /\ sd_op = "idle"
    /\ sd_doc = NoDoc
    /\ sd_log = NoLog
    /\ sd_file = NoFile
    /\ sd_res = NoDocResults

\* A record, a zeroed sealed log and no file.
DocInit ==
    /\ sd_op = "input"
    /\ sd_doc \in Documents
    /\ sd_log = NoLog
    /\ sd_file = NoFile
    /\ sd_res = NoDocResults

\* doc.seal(&mut sealed_log_in).
DocSeal ==
    /\ sd_op = "input"
    /\ LET r == DocumentSeal(sd_doc, sd_log) IN
        /\ sd_log' = r.log
        /\ sd_res' = [sd_res EXCEPT !.seal = IF r.ok THEN "Ok" ELSE "Err"]
    /\ sd_op' = "sealed"
    /\ UNCHANGED <<sd_doc, sd_file, ds_vars, mn_vars, wk_vars, sv_vars, ipc_vars, dt_vars, ch_vars, ptt_vars, ud_vars, sk_vars, wm_vars, ws_vars, ep_vars, kp_vars, km_vars, gs_vars, sy_vars>>

\* save_sealed_document(&p, &sealed_log_in).
DocSave ==
    /\ sd_op = "sealed"
    /\ \E io \in IoOutcomes :
        LET r == SaveSealedDocument(sd_file, sd_log, io) IN
        /\ sd_file' = r.file
        /\ sd_res' = [sd_res EXCEPT !.save = IF r.ok THEN "Ok" ELSE "Err"]
    /\ sd_op' = "saved"
    /\ UNCHANGED <<sd_doc, sd_log, ds_vars, mn_vars, wk_vars, sv_vars, ipc_vars, dt_vars, ch_vars, ptt_vars, ud_vars, sk_vars, wm_vars, ws_vars, ep_vars, kp_vars, km_vars, gs_vars, sy_vars>>

\* load_sealed_document(&p, &mut sealed_log_out), into a zeroed log.
DocLoad ==
    /\ sd_op = "saved"
    /\ LET r == LoadSealedDocument(sd_file) IN
        /\ sd_log' = r.log
        /\ sd_res' = [sd_res EXCEPT !.load = IF r.ok THEN "Ok" ELSE "Err"]
    /\ sd_op' = "loaded"
    /\ UNCHANGED <<sd_doc, sd_file, ds_vars, mn_vars, wk_vars, sv_vars, ipc_vars, dt_vars, ch_vars, ptt_vars, ud_vars, sk_vars, wm_vars, ws_vars, ep_vars, kp_vars, km_vars, gs_vars, sy_vars>>

\* SealedDocumentStorage::unseal(&mut sealed_log_out).
DocUnseal ==
    /\ sd_op = "loaded"
    /\ LET r == Unseal(sd_log) IN
        sd_res' = [sd_res EXCEPT !.unseal = r.tag, !.doc = r.doc]
    /\ sd_op' = "unsealed"
    /\ UNCHANGED <<sd_doc, sd_log, sd_file, ds_vars, mn_vars, wk_vars, sv_vars, ipc_vars, dt_vars, ch_vars, ptt_vars, ud_vars, sk_vars, wm_vars, ws_vars, ep_vars, kp_vars, km_vars, gs_vars, sy_vars>>

DocNext == DocSeal \/ DocSave \/ DocLoad \/ DocUnseal

(***************************************************************************)
(* 9. WASM executor                                                        *)
(***************************************************************************)
\* WasmCosts::default().
WasmCosts ==
    [regular |-> 1, div |-> 16, mul |-> 4, mem |-> 2, static_u256 |-> 64,
     static_address |-> 40, initial_mem |-> 4096, grow_mem |-> 8192, memcpy |-> 1,
     max_stack_height |-> 64 * 1024, opcodes_mul |-> 3, opcodes_div |-> 8]

\* The instruction types the metering rules tell apart; "grow" is grow_memory
\* by one page.
InstructionTypes == {"regular", "div", "mul", "load", "store", "grow"}

\* gas_rules(&wasm_costs): the cost the injected counter charges for one
\* instruction of type t.
GasRules(costs, t) ==
    CASE t = "load" -> costs.mem
      [] t = "store" -> costs.mem
      [] t = "div" -> costs.div
      [] t = "mul" -> costs.mul
      [] t = "grow" -> costs.grow_mem
      [] OTHER -> costs.regular

\* The gas the instrumented body charges when it runs to its end.
RECURSIVE GasOf(_)
GasOf(body) ==
    IF body = <<>> THEN 0
    ELSE GasRules(WasmCosts, body[1]) + GasOf(Tail(body))

\* ImportResolver::with_limit(64).
MaxMemoryPages == 64

\* Option<u32>::None for a memory descriptor's maximum.
NoMaximum == -1

\* ImportResolver::resolve_func(field_name, signature).
ResolveFunc(field_name) ==
    IF field_name = "ret"
    THEN [ok |-> TRUE, err |-> "-"]
    ELSE [ok |-> FALSE, err |-> "Instantiation"]

\* MemoryInstance::alloc(initial, maximum): refuses an initial size above the
\* maximum.
MemoryAlloc(initial, maximum) ==
    IF maximum # NoMaximum /\ initial > maximum
    THEN [ok |-> FALSE, err |-> "Memory"]
    ELSE [ok |-> TRUE, err |-> "-"]

NoMemory == [set |-> FALSE, initial |-> 0, maximum |-> NoMaximum]

\* A resolver that looks at the initial size only.
ResolveMemoryInitialOnly(max_memory, memory, field_name, descriptor) ==
    IF field_name = "memory"
    THEN IF descriptor.initial > max_memory
         THEN [ok |-> FALSE, err |-> "Instantiation", memory |-> memory]
         ELSE [ok |-> TRUE, err |-> "-",
               memory |-> [set |-> TRUE, initial |-> descriptor.initial,
                           maximum |-> descriptor.maximum]]
    ELSE [ok |-> FALSE, err |-> "Instantiation", memory |-> memory]

\* ImportResolver::resolve_memory(field_name, descriptor), for a resolver with
\* limit max_memory whose memory cell holds `memory`.
ResolveMemory(max_memory, memory, field_name, descriptor) ==
    IF field_name = "memory"
    THEN LET effective_max == IF descriptor.maximum = NoMaximum
                              THEN max_memory + 1 ELSE descriptor.maximum
         IN  IF descriptor.initial > max_memory \/ effective_max > max_memory
             THEN [ok |-> FALSE, err |-> "Instantiation", memory |-> memory]
             ELSE LET mem == MemoryAlloc(descriptor.initial, descriptor.maximum) IN
                  IF mem.ok
                  THEN [ok |-> TRUE, err |-> "-",
                        memory |-> [set |-> TRUE, initial |-> descriptor.initial,
                                    maximum |-> descriptor.maximum]]
                  ELSE [ok |-> FALSE, err |-> mem.err, memory |-> memory]
    ELSE [ok |-> FALSE, err |-> "Instantiation", memory |-> memory]

\* Names a module can import from `env`.
FieldNames == {"write_state", "read_state", "from_memory", "ret", "memory", "gas", "other"}

Pages == {0, 1, MaxMemoryPages, MaxMemoryPages + 1}
Maxima == Pages \cup {NoMaximum}
NoImport == [name |-> "none", initial |-> 0, maximum |-> NoMaximum]
MemoryImports == [name : {"memory", "mem"}, initial : Pages, maximum : Maxima]

\* Instruction sequences a contract's `call` export runs.
RECURSIVE BodiesOf(_)
BodiesOf(n) ==
    IF n = 0 THEN {<<>>}
    ELSE LET shorter == BodiesOf(n - 1) IN
         shorter \cup {Append(b, t) : b \in shorter, t \in InstructionTypes}
Bodies == BodiesOf(MaxOps)

\* A well-formed contract: decodes, no internal memory, imports ret and one
\* page of memory, runs one instruction and writes "157" under "code".
BaseModule ==
    [decodes |-> TRUE, mem_section |-> "none", transform |-> "ok",
     func_import |-> "ret", mem_import |-> [name |-> "memory", initial |-> 1, maximum |-> 1],
     start |-> FALSE, body |-> <<"regular">>, traps |-> FALSE, writes |-> "157"]

\* The byte strings handed to the executor, by what they decode to.
Modules ==
    {[BaseModule EXCEPT !.decodes = FALSE]}
    \cup {[BaseModule EXCEPT !.mem_section = ms, !.transform = t] :
            ms \in {"none", "empty", "one"},
            t \in {"ok", "gas_fails", "stack_fails", "invalid"}}
    \cup {[BaseModule EXCEPT !.func_import = f, !.mem_import = mi, !.start = st] :
            f \in {"none", "ret", "write_state", "other"},
            mi \in MemoryImports \cup {NoImport}, st \in BOOLEAN}
    \cup {[BaseModule EXCEPT !.body = b, !.traps = tr, !.writes = w] :
            b \in Bodies, tr \in BOOLEAN, w \in Vals}

GasLimits == {20, 100000}

ExecutionError(err, steps) == [tag |-> "Err", error |-> "ExecutionError", err |-> err,
                               steps |-> steps, used_gas |-> 0, json |-> EmptyDoc]

\* A create_module that instruments the module before it looks at the memory
\* section.
CreateModuleChecksLate(code) ==
    IF ~code.decodes THEN ExecutionError("deserialize", <<"deserialize">>)
    ELSE IF code.transform = "gas_fails"
    THEN ExecutionError("inject_gas_counter", <<"deserialize", "inject_gas_counter">>)
    ELSE IF code.transform = "stack_fails"
    THEN ExecutionError("inject_limiter",
                        <<"deserialize", "inject_gas_counter", "inject_limiter">>)
    ELSE IF code.mem_section = "one"
    THEN ExecutionError("internal memory",
                        <<"deserialize", "inject_gas_counter", "inject_limiter", "memory_section">>)
    ELSE [ExecutionError("-", <<"deserialize", "inject_gas_counter", "inject_limiter",
                                "memory_section", "from_parity_wasm_module">>)
            EXCEPT !.tag = IF code.transform = "invalid" THEN "Err" ELSE "Ok"]

\* create_module(code): the steps taken and Ok, or the ExecutionError.
CreateModule(code) ==
    IF ~code.decodes THEN ExecutionError("deserialize", <<"deserialize">>)
    ELSE IF code.mem_section = "one"
    THEN ExecutionError("internal memory", <<"deserialize", "memory_section">>)
    ELSE IF code.transform = "gas_fails"
    THEN ExecutionError("inject_gas_counter",
                        <<"deserialize", "memory_section", "inject_gas_counter">>)
    ELSE IF code.transform = "stack_fails"
    THEN ExecutionError("inject_limiter",
                        <<"deserialize", "memory_section", "inject_gas_counter", "inject_limiter">>)
    ELSE [ExecutionError("-", <<"deserialize", "memory_section", "inject_gas_counter",
                                "inject_limiter", "from_parity_wasm_module">>)
            EXCEPT !.tag = IF code.transform = "invalid" THEN "Err" ELSE "Ok",
                   !.err = IF code.transform = "invalid" THEN "from_parity_wasm_module" ELSE "-"]

\* ModuleInstance::new(module, &imports): every import of the module is
\* resolved by the resolver registered for `env`.
Instantiate(code) ==
    LET f == IF code.func_import = "none" THEN [ok |-> TRUE, err |-> "-"]
             ELSE ResolveFunc(code.func_import)
        m == IF code.mem_import.name = "none"
             THEN [ok |-> TRUE, err |-> "-", memory |-> NoMemory]
             ELSE ResolveMemory(MaxMemoryPages, NoMemory, code.mem_import.name,
                                [initial |-> code.mem_import.initial,
                                 maximum |-> code.mem_import.maximum])
    IN  IF ~f.ok THEN [ok |-> FALSE, err |-> f.err, memory |-> NoMemory]
        ELSE m

Panic(steps, memory) ==
    [out |-> [ExecutionError("-", steps) EXCEPT !.tag = "panic", !.error = "-"],
     memory |-> memory]

\* execute(module, gas_limit, state, ..): instantiate under a fresh resolver
\* with limit 64, invoke `call`, and turn the outcome into a result.
ExecuteModule(code, steps, gas_limit, state) ==
    LET inst == Instantiate(code) IN
    IF ~inst.ok THEN Panic(Append(steps, "instantiate"), inst.memory)
    ELSE IF code.start THEN Panic(Append(steps, "instantiate"), inst.memory)
    ELSE IF code.traps \/ GasOf(code.body) > gas_limit
    THEN [out |-> ExecutionError("invoke", steps \o <<"instantiate", "invoke">>),
          memory |-> inst.memory]
    ELSE [out |-> [tag |-> "Ok", error |-> "-", err |-> "-",
                   steps |-> steps \o <<"instantiate", "invoke">>,
                   used_gas |-> GasOf(code.body),
                   json |-> [state EXCEPT !.code = code.writes]],
          memory |-> inst.memory]

\* execute_call / execute_constructor: create_module(code)?, then execute.
ExecuteCode(code, gas_limit, state) ==
    LET module == CreateModule(code) IN
    IF module.tag = "Err" THEN [out |-> module, memory |-> NoMemory]
    ELSE ExecuteModule(code, module.steps, gas_limit, state)

WasmIdle ==
    /\ wm_op = "idle"
    /\ wm_in = [code |-> BaseModule, gas_limit |-> 0, state |-> EmptyDoc]
    /\ wm_out = ExecutionError("-", <<>>)
    /\ wm_memory = NoMemory
    /\ wm_stored = EmptyDoc

\* A module, a gas limit and a persisted state, drawn.
WasmInit ==
    /\ wm_op = "input"
    /\ wm_in \in [code : Modules, gas_limit : GasLimits,
                   state : {EmptyDoc, [EmptyDoc EXCEPT !.code = "200"]}]
    /\ wm_out = ExecutionError("-", <<>>)
    /\ wm_memory = NoMemory
    /\ wm_stored = wm_in.state

\* ComputeTask: execute_call on the persisted state; the result's state is
\* persisted when there is one.
ExecuteCall ==
    /\ wm_op = "input"
    /\ LET r == ExecuteCode(wm_in.code, wm_in.gas_limit, wm_stored) IN
        /\ wm_out' = r.out
        /\ wm_memory' = r.memory
        /\ wm_stored' = IF r.out.tag = "Ok" THEN r.out.json ELSE wm_stored
    /\ wm_op' = "execute_call"
    /\ UNCHANGED <<wm_in, ipc_vars, dt_vars, ch_vars, ptt_vars, ud_vars, sk_vars, ws_vars, ep_vars, kp_vars, km_vars, gs_vars, sy_vars, x_vars>>

\* DeploySecretContract: execute_constructor on a new, empty state.
ExecuteConstructor ==
    /\ wm_op = "input"
    /\ LET r == ExecuteCode(wm_in.code, wm_in.gas_limit, EmptyDoc) IN
        /\ wm_out' = r.out
        /\ wm_memory' = r.memory
        /\ wm_stored' = IF r.out.tag = "Ok" THEN r.out.json ELSE wm_stored
    /\ wm_op' = "execute_constructor"
    /\ UNCHANGED <<wm_in, ipc_vars, dt_vars, ch_vars, ptt_vars, ud_vars, sk_vars, ws_vars, ep_vars, kp_vars, km_vars, gs_vars, sy_vars, x_vars>>

\* One contract handed to the executor.
WasmOne ==
    /\ wm_op = "input"
    /\ wm_in = [code |-> BaseModule, gas_limit |-> 100000, state |-> EmptyDoc]
    /\ wm_out = ExecutionError("-", <<>>)
    /\ wm_memory = NoMemory
    /\ wm_stored = wm_in.state

\* resolve_func for the module's function import, on a fresh resolver; the
\* import may carry any name.
WasmResolveFunc ==
    /\ wm_op = "input"
    /\ \E field_name \in FieldNames :
        /\ wm_in' = [wm_in EXCEPT !.code.func_import = field_name]
        /\ wm_out' = [ExecutionError("-", <<>>) EXCEPT
                        !.tag = IF ResolveFunc(field_name).ok THEN "Ok" ELSE "Err",
                        !.error = ResolveFunc(field_name).err]
    /\ wm_op' = "resolve_func"
    /\ UNCHANGED <<wm_memory, wm_stored, ipc_vars, dt_vars, ch_vars, ptt_vars, ud_vars, sk_vars, ws_vars, ep_vars, kp_vars, km_vars, gs_vars, sy_vars, x_vars>>

\* resolve_memory for the module's memory import, on a fresh resolver with
\* limit 64.
WasmResolveMemory ==
    /\ wm_op = "input"
    /\ wm_in.code.mem_import.name # "none"
    /\ LET mi == wm_in.code.mem_import
           r == ResolveMemory(MaxMemoryPages, NoMemory, mi.name,
                              [initial |-> mi.initial, maximum |-> mi.maximum]) IN
        /\ wm_out' = [ExecutionError("-", <<>>) EXCEPT
                        !.tag = IF r.ok THEN "Ok" ELSE "Err", !.error = r.err]
        /\ wm_memory' = r.memory
    /\ wm_op' = "resolve_memory"
    /\ UNCHANGED <<wm_in, wm_stored, ipc_vars, dt_vars, ch_vars, ptt_vars, ud_vars, sk_vars, ws_vars, ep_vars, kp_vars, km_vars, gs_vars, sy_vars, x_vars>>

WasmNext == ExecuteCall \/ ExecuteConstructor \/ WasmResolveFunc \/ WasmResolveMemory

(***************************************************************************)
(* 10. Worker selection                                                    *)
(***************************************************************************)
\* The number of values of a hash / U256 in the model (2^256 in the code).
HashSpace == 16

\* Option<U64>::None for the group size.
NoGroupSize == -1

WorkerNames == <<"w1", "w2", "w3", "w4", "w5">>

\* The seeds, contract addresses and stakes the selection is run on.
Seeds == 0..1
ScAddrs == 0..1
Stakes == 0..2

\* The nodes that run the selection.
Nodes == {"node1", "node2"}

RECURSIVE SumOf(_)
SumOf(balances) ==
    IF balances = <<>> THEN 0 ELSE balances[1] + SumOf(Tail(balances))

\* rlp::encode(&WorkerSelectionToken { seed, sc_addr, nonce }): a list of the
\* three fields in this order.
EncodeToken(token) == <<token.seed, token.sc_addr, token.nonce>>

\* keccak256 of the encoded token, as a U256.
Keccak256(bytes) == (7 * bytes[1] + 11 * bytes[2] + 5 * bytes[3] + 3) % HashSpace

\* rand_val.overflowing_sub(balance): the wrapped difference and the borrow.
OverflowingSub(a, b) == [value |-> (a - b) % HashSpace, borrow |-> a < b]

\* What a round yields when self.balances[i] is indexed past its end.
IndexPanic == "index out of bounds"

\* The inner loop from worker i on: the first worker whose stake makes the
\* running value borrow or hit zero, else the last worker.
RECURSIVE SelectedWorkerFrom(_, _, _)
SelectedWorkerFrom(self, i, rand_val) ==
    IF i > Len(self.workers) THEN self.workers[Len(self.workers)]
    ELSE IF i > Len(self.balances) THEN IndexPanic
    ELSE LET result == OverflowingSub(rand_val, self.balances[i]) IN
         IF result.borrow \/ result.value = 0 THEN self.workers[i]
         ELSE SelectedWorkerFrom(self, i + 1, result.value)

\* A tie-break that selects on borrow only.
SelectionRoundBorrowOnly(self, sc_addr, nonce) ==
    LET r == Keccak256(EncodeToken([seed |-> self.seed, sc_addr |-> sc_addr, nonce |-> nonce]))
                % SumOf(self.balances)
        first == {i \in 1..Len(self.workers) : r < SumOf(SubSeq(self.balances, 1, i))}
    IN  IF first = {} THEN self.workers[Len(self.workers)]
        ELSE self.workers[CHOOSE i \in first : \A j \in first : i <= j]

\* One round of the outer loop: the worker picked for selection nonce `nonce`.
SelectionRound(self, sc_addr, nonce) ==
    LET token == [seed |-> self.seed, sc_addr |-> sc_addr, nonce |-> nonce]
        hash == Keccak256(EncodeToken(token))
        rand_val == hash % SumOf(self.balances)
    IN  SelectedWorkerFrom(self, 1, rand_val)

\* A membership test that never finds the worker.
InListNever(x, list) == FALSE

InList(x, list) == \E k \in 1..Len(list) : list[k] = x

\* The do-while loop from selection nonce `nonce` on.  The hash repeats after
\* HashSpace nonces: a loop that has not ended by then never ends.
RECURSIVE SelectLoop(_, _, _, _, _)
SelectLoop(self, sc_addr, limit, nonce, selected_workers) ==
    LET selected_worker == SelectionRound(self, sc_addr, nonce)
        now == IF InList(selected_worker, selected_workers) THEN selected_workers
               ELSE Append(selected_workers, selected_worker)
    IN  IF selected_worker = IndexPanic
        THEN [tag |-> "panic", workers |-> <<>>, rounds |-> nonce]
        ELSE IF Len(now) < limit
        THEN IF nonce + 1 >= HashSpace
             THEN [tag |-> "diverges", workers |-> now, rounds |-> nonce + 1]
             ELSE SelectLoop(self, sc_addr, limit, nonce + 1, now)
        ELSE [tag |-> "Ok", workers |-> now, rounds |-> nonce + 1]

\* A selection that starts its nonce at the nonce of the WorkerParams.
GetSelectedWorkersFromParamsNonce(self, sc_addr, group_size) ==
    IF SumOf(self.balances) = 0 \/ Len(self.workers) = 0
    THEN [tag |-> "panic", workers |-> <<>>, rounds |-> 0]
    ELSE SelectLoop(self, sc_addr, IF group_size = NoGroupSize THEN 1 ELSE group_size,
                    self.nonce, <<>>)

\* WorkerParams::get_selected_workers(&self, sc_addr, group_size).
GetSelectedWorkers(self, sc_addr, group_size) ==
    IF SumOf(self.balances) = 0 \/ Len(self.workers) = 0
    THEN [tag |-> "panic", workers |-> <<>>, rounds |-> 0]
    ELSE SelectLoop(self, sc_addr, IF group_size = NoGroupSize THEN 1 ELSE group_size,
                    0, <<>>)

NoSelection == [tag |-> "-", workers |-> <<>>, rounds |-> 0]

SelIdle ==
    /\ ws_in = [seed |-> 0, workers |-> <<>>, balances |-> <<>>, sc_addr |-> 0,
                group_size |-> NoGroupSize, set |-> FALSE]
    /\ ws_local = [n \in Nodes |-> [block_number |-> 0, nonce |-> 0]]
    /\ ws_out = [n \in Nodes |-> NoSelection]

\* The inputs of one selection, the same on every node, and each node's own
\* block number and nonce.
SelInit ==
    /\ ws_in \in {[seed |-> sd, workers |-> SubSeq(WorkerNames, 1, Len(bs)), balances |-> bs,
                    sc_addr |-> a, group_size |-> g, set |-> TRUE] :
                    sd \in Seeds, a \in ScAddrs, g \in {NoGroupSize} \cup 0..MaxWorkers,
                    bs \in UNION {[1..n -> Stakes] : n \in 0..MaxWorkers}}
    /\ ws_local = [n \in Nodes |-> [block_number |-> 0, nonce |-> 0]]
    /\ ws_out = [n \in Nodes |-> NoSelection]

\* get_selected_workers on one node.
SelectWorkers ==
    /\ ws_in.set
    /\ \E n \in Nodes :
        /\ ws_out[n] = NoSelection
        /\ LET self == [block_number |-> ws_local[n].block_number, workers |-> ws_in.workers,
                        balances |-> ws_in.balances, nonce |-> ws_local[n].nonce,
                        seed |-> ws_in.seed]
           IN  ws_out' = [ws_out EXCEPT ![n] = GetSelectedWorkers(self, ws_in.sc_addr, ws_in.group_size)]
    /\ UNCHANGED <<ws_in, ws_local, ipc_vars, dt_vars, ch_vars, ptt_vars, ud_vars, sk_vars, wm_vars, ep_vars, kp_vars, km_vars, gs_vars, sy_vars, x_vars>>

\* A node moves to another block and nonce between calls.
SelAdvance ==
    /\ ws_in.set
    /\ \E n \in Nodes :
        /\ ws_out[n] = NoSelection
        /\ ws_local[n].block_number < 1
        /\ ws_local' = [ws_local EXCEPT ![n].block_number = @ + 1, ![n].nonce = 1 - @]
    /\ UNCHANGED <<ws_in, ws_out, ipc_vars, dt_vars, ch_vars, ptt_vars, ud_vars, sk_vars, wm_vars, ep_vars, kp_vars, km_vars, gs_vars, sy_vars, x_vars>>

SelNext == SelectWorkers \/ SelAdvance

(***************************************************************************)
(* 11. The Epoch record                                                    *)
(***************************************************************************)
\* The stakes of the worker parameters handed to an epoch.
EpochStakes == 0..1

\* The worker parameters a caller can hand over: nothing ties the number of
\* balances to the number of workers.
WorkerParamsSet ==
    {[block_number |-> 1, workers |-> SubSeq(WorkerNames, 1, nw), balances |-> bs,
      nonce |-> 0, seed |-> sd] :
        nw \in 0..MaxWorkers, sd \in {1},
        bs \in UNION {[1..n -> EpochStakes] : n \in 0..MaxWorkers}}

\* EnclaveError::WorkerAuthError { err }.
WorkerAuthError(err) == [tag |-> "WorkerAuthError", err |-> err, workers |-> <<>>]

OkUnit == [tag |-> "Ok", err |-> "", workers |-> <<>>]

\* A set_worker_params that replaces parameters already set.
EpochSetWorkerParamsAgain(self, params) ==
    [epoch |-> [self EXCEPT !.worker_params = <<params>>], result |-> OkUnit]

\* Epoch::set_worker_params(&mut self, params): the epoch afterwards and the
\* result.  worker_params is an Option: <<>> is None, <<p>> is Some(p).
EpochSetWorkerParams(self, params) ==
    IF self.worker_params # <<>>
    THEN [epoch |-> self, result |-> WorkerAuthError("Worker parameters already set for epoch")]
    ELSE [epoch |-> [self EXCEPT !.worker_params = <<params>>], result |-> OkUnit]

\* Epoch::get_selected_workers(self, sc_addr).
EpochGetSelectedWorkers(self, sc_addr) ==
    IF self.worker_params # <<>>
    THEN LET workers == GetSelectedWorkers(self.worker_params[1], sc_addr, NoGroupSize)
         IN  [tag |-> workers.tag, err |-> "", workers |-> workers.workers]
    ELSE WorkerAuthError("No worker parameters in epoch")

NoEpochCall == [op |-> "-", params |-> <<>>, result |-> OkUnit]

EpochIdle ==
    /\ ep_epoch = [seed |-> 0, worker_params |-> <<>>, preverified_block_hash |-> 0]
    /\ ep_last = NoEpochCall

\* A new epoch: a seed and no worker parameters yet.
EpochInit ==
    /\ ep_epoch \in [seed : Seeds, worker_params : {<<>>}, preverified_block_hash : {0}]
    /\ ep_last = NoEpochCall

\* A call of Epoch::set_worker_params.
SetWorkerParams ==
    /\ \E params \in WorkerParamsSet :
        LET done == EpochSetWorkerParams(ep_epoch, params) IN
        /\ ep_epoch' = done.epoch
        /\ ep_last' = [op |-> "set_worker_params", params |-> <<params>>, result |-> done.result]
    /\ UNCHANGED <<ipc_vars, dt_vars, ch_vars, ptt_vars, ud_vars, sk_vars, wm_vars, ws_vars, kp_vars, km_vars, gs_vars, sy_vars, x_vars>>

\* A call of Epoch::get_selected_workers on a copy of the epoch.
GetEpochSelectedWorkers ==
    /\ \E sc_addr \in ScAddrs :
        ep_last' = [op |-> "get_selected_workers", params |-> <<>>,
                    result |-> EpochGetSelectedWorkers(ep_epoch, sc_addr)]
    /\ UNCHANGED <<ep_epoch, ipc_vars, dt_vars, ch_vars, ptt_vars, ud_vars, sk_vars, wm_vars, ws_vars, kp_vars, km_vars, gs_vars, sy_vars, x_vars>>

EpochNext == SetWorkerParams \/ GetEpochSelectedWorkers

(***************************************************************************)
(* 12. The epoch keeper: set_worker_params                                 *)
(***************************************************************************)
\* The seeds the enclave's random source yields (never the all-zero seed).
RandomSeeds == 1..2

\* EpochState { seed, sig, nonce }.
EpochStates == [seed : RandomSeeds, sig : {"sig"}, nonce : 0..MaxEpochs]

\* An enclave that numbers every epoch it creates with the same nonce.
EcallSetWorkerParamsSameNonce(nonce, seed_in, nonce_in, rand, retval) ==
    IF retval # "Success"
    THEN [retval |-> retval, rand_out |-> 0, nonce_out |-> 0, nonce |-> nonce]
    ELSE IF seed_in = 0 /\ nonce_in = 0
    THEN [retval |-> retval, rand_out |-> rand, nonce_out |-> 0, nonce |-> nonce + 1]
    ELSE [retval |-> retval, rand_out |-> seed_in, nonce_out |-> nonce_in, nonce |-> nonce]

\* ecall_set_worker_params: with a seed and nonce handed in the enclave
\* reuses them; with none (all zero) it draws a seed and numbers the epoch
\* with its own counter, which it then advances.
EcallSetWorkerParams(nonce, seed_in, nonce_in, rand, retval) ==
    IF retval # "Success"
    THEN [retval |-> retval, rand_out |-> 0, nonce_out |-> 0, nonce |-> nonce]
    ELSE IF seed_in = 0 /\ nonce_in = 0
    THEN [retval |-> retval, rand_out |-> rand, nonce_out |-> nonce, nonce |-> nonce + 1]
    ELSE [retval |-> retval, rand_out |-> seed_in, nonce_out |-> nonce_in, nonce |-> nonce]

NoEpochState == [seed |-> 0, sig |-> "", nonce |-> 0]

\* A set_worker_params that builds the new EpochState from nonce_in.
KeeperSetWorkerParamsNonceIn(nonce, epoch_state, rand, retval) ==
    LET nonce_in == IF epoch_state # <<>> THEN epoch_state[1].nonce ELSE 0
        seed_in == IF epoch_state # <<>> THEN epoch_state[1].seed ELSE 0
        out == EcallSetWorkerParams(nonce, seed_in, nonce_in, rand, retval)
    IN  IF out.retval # "Success"
        THEN [ok |-> FALSE, epoch_state |-> NoEpochState, nonce |-> out.nonce]
        ELSE [ok |-> TRUE,
              epoch_state |-> IF epoch_state # <<>> THEN epoch_state[1]
                              ELSE [seed |-> out.rand_out, sig |-> "sig", nonce |-> nonce_in],
              nonce |-> out.nonce]

\* set_worker_params(eid, worker_params, epoch_state): the result and the
\* enclave's counter afterwards.  epoch_state is an Option: <<>> is None.
KeeperSetWorkerParams(nonce, epoch_state, rand, retval) ==
    LET nonce_in == IF epoch_state # <<>> THEN epoch_state[1].nonce ELSE 0
        seed_in == IF epoch_state # <<>> THEN epoch_state[1].seed ELSE 0
        out == EcallSetWorkerParams(nonce, seed_in, nonce_in, rand, retval)
    IN  IF out.retval # "Success"
        THEN [ok |-> FALSE, epoch_state |-> NoEpochState, nonce |-> out.nonce]
        ELSE [ok |-> TRUE,
              epoch_state |-> IF epoch_state # <<>> THEN epoch_state[1]
                              ELSE [seed |-> out.rand_out, sig |-> "sig", nonce |-> out.nonce_out],
              nonce |-> out.nonce]

NoKeeperCall ==
    [epoch_state |-> <<>>, rand |-> 0, ok |-> FALSE, result |-> NoEpochState, before |-> {},
     called |-> FALSE]

KeeperIdle ==
    /\ kp_nonce = 0
    /\ kp_created = {}
    /\ kp_last = NoKeeperCall

\* A call of set_worker_params, with or without a previous epoch state.
CallSetWorkerParams ==
    /\ kp_nonce < MaxEpochs
    /\ \E epoch_state \in {<<>>} \cup {<<e>> : e \in EpochStates} :
       \E rand \in RandomSeeds : \E retval \in {"Success", "Other"} :
        LET done == KeeperSetWorkerParams(kp_nonce, epoch_state, rand, retval) IN
        /\ kp_nonce' = done.nonce
        /\ kp_created' = IF done.ok /\ epoch_state = <<>>
                         THEN kp_created \cup {done.epoch_state.nonce} ELSE kp_created
        /\ kp_last' = [epoch_state |-> epoch_state, rand |-> rand, ok |-> done.ok,
                       result |-> done.epoch_state, before |-> kp_created, called |-> TRUE]
    /\ UNCHANGED <<ipc_vars, dt_vars, ch_vars, ptt_vars, ud_vars, sk_vars, wm_vars, ws_vars, ep_vars, km_vars, gs_vars, sy_vars, x_vars>>

KeeperNext == CallSetWorkerParams

(***************************************************************************)
(* 12a. The symmetric codec on bytes (enigma-crypto/src/symmetric.rs)      *)
(***************************************************************************)
IV_SIZE == 12
TagLen == 16

\* Byte values, keys and the two nonces the codec is run on: 0, 1, .., 11 and
\* all zero.
ByteVals == 0..1
SymKeys == 1..2
SymIvs == {[i \in 1..IV_SIZE |-> (i - 1) % 2], [i \in 1..IV_SIZE |-> 0]}

RECURSIVE SumBytes(_)
SumBytes(bytes) == IF bytes = <<>> THEN 0 ELSE bytes[1] + SumBytes(Tail(bytes))

\* The key stream byte at position i under (key, iv).
KeyStream(key, iv, i) == (key + SumBytes(iv) + i) % 2

\* AES-CTR: the bytes xored with the key stream (its own inverse).
CtrXor(bytes, key, iv) == [i \in 1..Len(bytes) |-> (bytes[i] + KeyStream(key, iv, i)) % 2]

\* The authentication tag over the ciphertext under (key, iv), empty AAD.
TagOf(ciphertext, key, iv) ==
    [j \in 1..TagLen |->
        (key + j * SumBytes(iv) + Len(ciphertext) + SumBytes([i \in 1..Len(ciphertext) |-> (i + j) * ciphertext[i]])) % 2]

SymErr(err) == [ok |-> FALSE, err |-> err, val |-> <<>>]
SymOk(val) == [ok |-> TRUE, err |-> "", val |-> val]

\* An encryption that puts the nonce in front of the ciphertext.
SymEncryptWithNonceIvFirst(message, key, _iv, random) ==
    IF _iv = <<>> /\ random = <<>> THEN SymErr("RandomError")
    ELSE LET iv == IF _iv # <<>> THEN _iv[1] ELSE random[1]
             sealed == CtrXor(message, key, iv)
         IN  SymOk(iv \o sealed \o TagOf(sealed, key, iv))

\* An encryption that draws its nonce from the random source even when the
\* caller supplies one.
SymEncryptWithNonceRandomFirst(message, key, _iv, random) ==
    IF _iv = <<>> /\ random = <<>> THEN SymErr("RandomError")
    ELSE LET iv == IF random # <<>> THEN random[1] ELSE _iv[1]
             sealed == CtrXor(message, key, iv)
             in_out == sealed \o TagOf(sealed, key, iv)
         IN  SymOk(in_out \o iv)

\* encrypt_with_nonce(message, key, _iv): ciphertext || tag || iv.  _iv is an
\* Option; `random` is what rand::random yields, <<>> when it fails.
SymEncryptWithNonce(message, key, _iv, random) ==
    IF _iv = <<>> /\ random = <<>> THEN SymErr("RandomError")
    ELSE LET iv == IF _iv # <<>> THEN _iv[1] ELSE random[1]
             sealed == CtrXor(message, key, iv)
             in_out == sealed \o TagOf(sealed, key, iv)
         IN  SymOk(in_out \o iv)

\* encrypt(message, key).
SymEncrypt(message, key, random) == SymEncryptWithNonce(message, key, <<>>, random)

\* A decryption that splits the tag off without looking at the length first.
SymDecryptTagUnchecked(cipheriv, key) ==
    IF Len(cipheriv) < IV_SIZE THEN SymErr("ImproperEncryption")
    ELSE LET ciphertext == SubSeq(cipheriv, 1, Len(cipheriv) - IV_SIZE)
             iv == SubSeq(cipheriv, Len(cipheriv) - IV_SIZE + 1, Len(cipheriv))
         IN  IF Len(ciphertext) < TagLen THEN SymErr("attempt to subtract with overflow")
             ELSE LET sealed == SubSeq(ciphertext, 1, Len(ciphertext) - TagLen)
                      tag == SubSeq(ciphertext, Len(ciphertext) - TagLen + 1, Len(ciphertext))
                  IN  IF tag # TagOf(sealed, key, iv) THEN SymErr("DecryptionError")
                      ELSE SymOk(CtrXor(sealed, key, iv))

\* decrypt(cipheriv, key).
SymDecrypt(cipheriv, key) ==
    IF Len(cipheriv) < IV_SIZE THEN SymErr("ImproperEncryption")
    ELSE LET ciphertext == SubSeq(cipheriv, 1, Len(cipheriv) - IV_SIZE)
             iv == SubSeq(cipheriv, Len(cipheriv) - IV_SIZE + 1, Len(cipheriv))
         IN  IF Len(ciphertext) < TagLen THEN SymErr("DecryptionError")
             ELSE LET sealed == SubSeq(ciphertext, 1, Len(ciphertext) - TagLen)
                      tag == SubSeq(ciphertext, Len(ciphertext) - TagLen + 1, Len(ciphertext))
                  IN  IF tag # TagOf(sealed, key, iv) THEN SymErr("DecryptionError")
                      ELSE SymOk(CtrXor(sealed, key, iv))

SymIdle ==
    /\ sy_in = [message |-> <<>>, key |-> 1, iv |-> <<>>, random |-> <<>>, set |-> FALSE]
    /\ sy_op = "idle"
    /\ sy_enc = SymErr("")
    /\ sy_dec = [cipheriv |-> <<>>, key |-> 1, result |-> SymErr("")]

\* A message, a key, a nonce or none, and what the random source yields.
SymInit ==
    /\ sy_in \in [message : UNION {[1..n -> ByteVals] : n \in 0..MaxLen}, key : SymKeys,
                   iv : {<<>>} \cup {<<iv>> : iv \in SymIvs},
                   random : {<<>>} \cup {<<iv>> : iv \in SymIvs}, set : {TRUE}]
    /\ sy_op = "idle"
    /\ sy_enc = SymErr("")
    /\ sy_dec = [cipheriv |-> <<>>, key |-> 1, result |-> SymErr("")]

sy_frame == <<ipc_vars, dt_vars, ch_vars, ptt_vars, ud_vars, sk_vars, wm_vars, ws_vars, ep_vars, kp_vars, km_vars, gs_vars, x_vars>>

\* encrypt_with_nonce(message, key, Some(iv)), or encrypt(message, key) when
\* no nonce is given.
SymEncryptCall ==
    /\ sy_in.set
    /\ sy_op = "idle"
    /\ sy_enc' = IF sy_in.iv = <<>> THEN SymEncrypt(sy_in.message, sy_in.key, sy_in.random)
                 ELSE SymEncryptWithNonce(sy_in.message, sy_in.key, sy_in.iv, sy_in.random)
    /\ sy_op' = "encrypt"
    /\ UNCHANGED <<sy_in, sy_dec, sy_frame>>

\* The ways the bytes can change between encryption and decryption: not at
\* all, cut to their first n bytes, or one byte flipped.
Carried(bytes) ==
    {bytes} \cup {SubSeq(bytes, 1, n) : n \in {0, IV_SIZE - 1, IV_SIZE, Len(bytes) - 1}}
            \cup {[bytes EXCEPT ![i] = 1 - @] : i \in {1, Len(bytes) - IV_SIZE, Len(bytes)}}

\* decrypt(cipheriv, key) on the bytes that arrive, under the same or another key.
SymDecryptCall ==
    /\ sy_op = "encrypt"
    /\ sy_enc.ok
    /\ \E cipheriv \in Carried(sy_enc.val) : \E key \in SymKeys :
        sy_dec' = [cipheriv |-> cipheriv, key |-> key, result |-> SymDecrypt(cipheriv, key)]
    /\ sy_op' = "decrypt"
    /\ UNCHANGED <<sy_in, sy_enc, sy_frame>>

SymNext == SymEncryptCall \/ SymDecryptCall

(***************************************************************************)
(* 13. The key tables: DH_KEYS and the readers of STATE_KEYS               *)
(***************************************************************************)
\* The dispatcher takes the next request when the last one has returned.
KeysTurn == gs_pc = "idle" /\ km_pairs + gs_n + ptt_n < MaxPtt

UserPubKeys == {"user1", "user2"}
EphemeralNames == <<"eph1", "eph2", "eph3", "eph4">>
SIGNINING_KEY == "signing key"

\* No entry in DH_KEYS.
NoDhKey == <<"dh", {}>>

\* KeyPair::get_aes_key: the Diffie-Hellman key of a key pair and the public
\* key of another; both sides derive the same key.
GetAesKey(keys, pubkey) == <<"dh", {keys, pubkey}>>

\* UserMessage::new(pubkey).to_message().
UserMessage(pubkey) == <<"UserMessage", pubkey>>

\* KeyPair::sign(message).
Sign(key, message) == <<"sig", key, message>>

\* The steps of ecall_get_user_key_internal that can return an error.
UserKeySteps == <<"KeyPair::new", "to_message", "sign", "get_aes_key">>

\* Whether the call gets past step number k when step `fail` fails.
Passes(k, fail) == \A j \in 1..k : UserKeySteps[j] # fail

UserKeyError(fail, dh) == [ok |-> FALSE, err |-> fail, msg |-> <<>>, sig |-> <<>>, dh_keys |-> dh]

\* An ecall that stores the derived key before it signs the message.
EcallGetUserKeyStoresFirst(dh, keys, user_pubkey, fail) ==
    IF ~Passes(2, fail) THEN UserKeyError(fail, dh)
    ELSE LET stored == [dh EXCEPT ![user_pubkey] = GetAesKey(keys, user_pubkey)]
             msg == UserMessage(keys)
         IN  IF ~Passes(4, fail) THEN UserKeyError(fail, stored)
             ELSE [ok |-> TRUE, err |-> "", msg |-> msg, sig |-> Sign(SIGNINING_KEY, msg),
                   dh_keys |-> stored]

\* An ecall that keeps the entry a user already has.
EcallGetUserKeyKeepsFirst(dh, keys, user_pubkey, fail) ==
    LET msg == UserMessage(keys) IN
    IF ~Passes(3, fail) THEN UserKeyError(fail, dh)
    ELSE IF ~Passes(4, fail) THEN [UserKeyError(fail, dh) EXCEPT !.sig = Sign(SIGNINING_KEY, msg)]
    ELSE [ok |-> TRUE, err |-> "", msg |-> msg, sig |-> Sign(SIGNINING_KEY, msg),
          dh_keys |-> IF dh[user_pubkey] # NoDhKey THEN dh
                      ELSE [dh EXCEPT ![user_pubkey] = GetAesKey(keys, user_pubkey)]]

\* ecall_get_user_key_internal(sig, user_pubkey) with the new key pair `keys`:
\* the result, the signature written and DH_KEYS afterwards.
EcallGetUserKey(dh, keys, user_pubkey, fail) ==
    IF ~Passes(1, fail) THEN UserKeyError(fail, dh)
    ELSE LET msg == UserMessage(keys) IN
         IF ~Passes(2, fail) THEN UserKeyError(fail, dh)
         ELSE IF ~Passes(3, fail) THEN UserKeyError(fail, dh)
         ELSE IF ~Passes(4, fail)
              THEN [UserKeyError(fail, dh) EXCEPT !.sig = Sign(SIGNINING_KEY, msg)]
              ELSE [ok |-> TRUE, err |-> "", msg |-> msg, sig |-> Sign(SIGNINING_KEY, msg),
                    dh_keys |-> [dh EXCEPT ![user_pubkey] = GetAesKey(keys, user_pubkey)]]

NoUserKeyCall ==
    [user_pubkey |-> "", keys |-> "", called |-> FALSE, before |-> [u \in UserPubKeys |-> NoDhKey],
     result |-> UserKeyError("", [u \in UserPubKeys |-> NoDhKey])]

KmIdle ==
    /\ dh_keys = [u \in UserPubKeys |-> NoDhKey]
    /\ km_pairs = 0
    /\ km_last = NoUserKeyCall
    /\ km_recent = [u \in UserPubKeys |-> ""]

\* NewTaskEncryptionKey { userPubKey }.
NewTaskEncryptionKey ==
    /\ KeysTurn
    /\ km_pairs < MaxKeyPairs
    /\ \E user_pubkey \in UserPubKeys : \E fail \in {"none"} \cup {UserKeySteps[k] : k \in 1..4} :
        LET keys == EphemeralNames[km_pairs + 1]
            done == EcallGetUserKey(dh_keys, keys, user_pubkey, fail)
        IN  /\ dh_keys' = done.dh_keys
            /\ km_last' = [user_pubkey |-> user_pubkey, keys |-> keys, called |-> TRUE,
                           before |-> dh_keys, result |-> done]
            /\ km_recent' = IF done.ok THEN [km_recent EXCEPT ![user_pubkey] = keys] ELSE km_recent
    /\ km_pairs' = km_pairs + 1
    /\ UNCHANGED <<ipc_vars, dt_vars, ch_vars, ptt_vars, ud_vars, sk_vars, wm_vars, ws_vars, ep_vars, kp_vars, gs_vars, sy_vars, x_vars>>

\* EncryptedContractState: the state document sealed under a state key.
EncryptState(addr, doc, key, iv) == ContractStateEncrypt([NewState(addr) EXCEPT !.json = doc], key, iv)

\* What the host DB can hold for an address.
HostEntries(addr) ==
    {NoEncState, EncryptState(addr, [code |-> "157", owner |-> Absent], "key1", "iv1")}

NoStateResult == [tag |-> "-", state |-> EmptyDoc]

GsIdle ==
    /\ gs_pc = "idle"
    /\ gs_addr = "<none>"
    /\ gs_guard = FALSE
    /\ gs_key = NoKey
    /\ gs_enc = NoEncState
    /\ gs_reads = 0
    /\ gs_result = NoStateResult
    /\ gs_db = [a \in Addrs |-> NoEncState]
    /\ gs_n = 0

\* The host DB holds a state for the first address or for none.
GsInit ==
    /\ gs_pc = "idle"
    /\ gs_addr = "<none>"
    /\ gs_guard = FALSE
    /\ gs_key = NoKey
    /\ gs_enc = NoEncState
    /\ gs_reads = 0
    /\ gs_result = NoStateResult
    /\ gs_db \in {db \in [Addrs -> UNION {HostEntries(a) : a \in Addrs}] :
                      db["addrA"] \in HostEntries("addrA") /\ db["addrB"] = NoEncState}
    /\ gs_n = 0

gs_frame == <<ipc_vars, dt_vars, ch_vars, ptt_vars, ud_vars, sk_vars, wm_vars, ws_vars, ep_vars, kp_vars, km_vars, sy_vars, x_vars>>

\* get_state(db_ptr, addr), line 129: STATE_KEYS.lock_expect("State Keys").
GetStateLock ==
    /\ KeysTurn
    /\ \E addr \in Addrs : gs_addr' = addr
    /\ gs_guard' = TRUE
    /\ gs_pc' = "lookup"
    /\ gs_reads' = 0
    /\ gs_result' = NoStateResult
    /\ gs_key' = NoKey
    /\ gs_enc' = NoEncState
    /\ gs_n' = gs_n + 1
    /\ UNCHANGED <<gs_db, gs_frame>>

\* A lookup that stores a default key for an address it does not find.
GetStateLookupInserts ==
    /\ gs_pc = "lookup"
    /\ state_keys' = [state_keys EXCEPT ![gs_addr] = IF @ = NoKey THEN "key1" ELSE @]
    /\ gs_key' = state_keys'[gs_addr]
    /\ gs_pc' = "ocall"
    /\ UNCHANGED <<gs_result, gs_guard, gs_addr, gs_enc, gs_reads, gs_db, gs_n>>
    /\ UNCHANGED <<ptt_dh, ptt_asked, ptt_n, ptt_errors, ptt_last>>
    /\ UNCHANGED <<ipc_vars, dt_vars, ch_vars, ud_vars, sk_vars, wm_vars, ws_vars, ep_vars, kp_vars, km_vars, sy_vars, x_vars>>

\* A lookup that has the host read the state before it looks for the key.
GetStateLookupReadsFirst ==
    /\ gs_pc = "lookup"
    /\ IF state_keys[gs_addr] = NoKey
       THEN /\ gs_result' = [tag |-> "MissingKeyError", state |-> EmptyDoc]
            /\ gs_guard' = FALSE
            /\ gs_pc' = "idle"
            /\ gs_key' = gs_key
            /\ gs_reads' = gs_reads + 1
       ELSE /\ gs_key' = state_keys[gs_addr]
            /\ gs_pc' = "ocall"
            /\ UNCHANGED <<gs_result, gs_guard, gs_reads>>
    /\ UNCHANGED <<gs_addr, gs_enc, gs_db, gs_n, gs_frame>>

\* line 130: guard.get(&addr).ok_or(MissingKeyError)?; the guard is dropped
\* when the function returns.
GetStateLookup ==
    /\ gs_pc = "lookup"
    /\ IF state_keys[gs_addr] = NoKey
       THEN /\ gs_result' = [tag |-> "MissingKeyError", state |-> EmptyDoc]
            /\ gs_guard' = FALSE
            /\ gs_pc' = "idle"
            /\ gs_key' = gs_key
       ELSE /\ gs_key' = state_keys[gs_addr]
            /\ gs_pc' = "ocall"
            /\ UNCHANGED <<gs_result, gs_guard>>
    /\ UNCHANGED <<gs_addr, gs_enc, gs_reads, gs_db, gs_n, gs_frame>>

\* line 132: runtime_ocalls_t::get_state(db_ptr, addr)? returns from the host.
GetStateOcall ==
    /\ gs_pc = "ocall"
    /\ gs_reads' = gs_reads + 1
    /\ IF gs_db[gs_addr] = NoEncState
       THEN /\ gs_result' = [tag |-> "OcallError", state |-> EmptyDoc]
            /\ gs_guard' = FALSE
            /\ gs_pc' = "idle"
            /\ gs_enc' = gs_enc
       ELSE /\ gs_enc' = gs_db[gs_addr]
            /\ gs_pc' = "decrypt"
            /\ UNCHANGED <<gs_result, gs_guard>>
    /\ UNCHANGED <<gs_addr, gs_key, gs_db, gs_n, gs_frame>>

\* lines 133-135: ContractState::decrypt(enc_state, key)? and the return.
GetStateDecrypt ==
    /\ gs_pc = "decrypt"
    /\ LET d == ContractStateDecrypt(gs_enc, gs_key) IN
       gs_result' = IF d.ok THEN [tag |-> "Ok", state |-> d.val.json]
                    ELSE [tag |-> d.err, state |-> EmptyDoc]
    /\ gs_guard' = FALSE
    /\ gs_pc' = "idle"
    /\ UNCHANGED <<gs_addr, gs_key, gs_enc, gs_reads, gs_db, gs_n, gs_frame>>

\* The requests that touch or read the key tables, one request at a time.
KeysNext ==
    \/ NewTaskEncryptionKey
    \/ GetStateLock \/ GetStateLookup \/ GetStateOcall \/ GetStateDecrypt
    \/ (KeysTurn /\ GetPTTRequest)
    \/ (KeysTurn /\ PTTResponse)
    \/ (KeysTurn /\ ExecuteConstructor)
    \/ (KeysTurn /\ ExecuteCall)

Init == IpcInit /\ DataIdle /\ ChainIdle /\ PttIdle /\ UpdIdle /\ SealIdle /\ WasmIdle /\ SelIdle /\ EpochIdle /\ KeeperIdle /\ KmIdle /\ GsIdle /\ SymIdle /\ StateCodecIdle /\ DocIdle /\ MainIdle /\ WriteIdle /\ SurfaceIdle

SpecIpc == Init /\ [][IpcNext]_vars

SpecMain == Init /\ [][MainNext]_vars

SpecSurface == Init /\ [][SurfaceNext]_vars

\* The data engine's operations tried on drawn states, everything else idle.
InitData == IpcInit /\ DataInit /\ ChainIdle /\ PttIdle /\ UpdIdle /\ SealIdle /\ WasmIdle /\ SelIdle /\ EpochIdle /\ KeeperIdle /\ KmIdle /\ GsIdle /\ SymIdle /\ StateCodecIdle /\ DocIdle /\ MainIdle /\ WriteIdle /\ SurfaceIdle

SpecData == InitData /\ [][DataNext]_vars

SpecChain == Init /\ [][ChainNext]_vars

SpecPtt == Init /\ [][PttNext]_vars

SpecBatch == Init /\ [][BatchNext]_vars

SpecSeal == Init /\ [][SealNext]_vars

\* The executor run once on drawn inputs, everything else idle.
InitWasm == IpcInit /\ DataIdle /\ ChainIdle /\ PttIdle /\ UpdIdle /\ SealIdle /\ WasmInit /\ SelIdle /\ EpochIdle /\ KeeperIdle /\ KmIdle /\ GsIdle /\ SymIdle /\ StateCodecIdle /\ DocIdle /\ MainIdle /\ WriteIdle /\ SurfaceIdle

SpecWasm == InitWasm /\ [][WasmNext]_vars

\* One selection run on two nodes, everything else idle.
InitSel == IpcInit /\ DataIdle /\ ChainIdle /\ PttIdle /\ UpdIdle /\ SealIdle /\ WasmIdle /\ SelInit /\ EpochIdle /\ KeeperIdle /\ KmIdle /\ GsIdle /\ SymIdle /\ StateCodecIdle /\ DocIdle /\ MainIdle /\ WriteIdle /\ SurfaceIdle

SpecSel == InitSel /\ [][SelNext]_vars

\* One epoch and the calls on it, everything else idle.
InitEpoch == IpcInit /\ DataIdle /\ ChainIdle /\ PttIdle /\ UpdIdle /\ SealIdle /\ WasmIdle /\ SelIdle /\ EpochInit /\ KeeperIdle /\ KmIdle /\ GsIdle /\ SymIdle /\ StateCodecIdle /\ DocIdle /\ MainIdle /\ WriteIdle /\ SurfaceIdle

SpecEpoch == InitEpoch /\ [][EpochNext]_vars

\* The epoch keeper alone.
SpecKeeper == Init /\ [][KeeperNext]_vars

\* The key tables under the requests that use them, over a host DB that holds
\* some states.
InitKeys == IpcInit /\ DataIdle /\ ChainIdle /\ PttIdle /\ UpdIdle /\ SealIdle /\ WasmOne /\ SelIdle /\ EpochIdle /\ KeeperIdle /\ KmIdle /\ GsInit /\ SymIdle /\ StateCodecIdle /\ DocIdle /\ MainIdle /\ WriteIdle /\ SurfaceIdle

SpecKeys == InitKeys /\ [][KeysNext]_vars

\* The symmetric codec on drawn inputs.
InitDoc == IpcInit /\ DataIdle /\ ChainIdle /\ PttIdle /\ UpdIdle /\ SealIdle /\ WasmIdle /\ SelIdle /\ EpochIdle /\ KeeperIdle /\ KmIdle /\ GsIdle /\ SymIdle /\ StateCodecIdle /\ DocInit /\ MainIdle /\ WriteIdle /\ SurfaceIdle

SpecDoc == InitDoc /\ [][DocNext]_vars

InitWrite == IpcInit /\ DataIdle /\ ChainIdle /\ PttIdle /\ UpdIdle /\ SealIdle /\ WasmIdle /\ SelIdle /\ EpochIdle /\ KeeperIdle /\ KmIdle /\ GsIdle /\ SymIdle /\ StateCodecIdle /\ DocIdle /\ MainIdle /\ WriteInit /\ SurfaceIdle

SpecWrite == InitWrite /\ [][WriteNext]_vars

InitSym == IpcInit /\ DataIdle /\ ChainIdle /\ PttIdle /\ UpdIdle /\ SealIdle /\ WasmIdle /\ SelIdle /\ EpochIdle /\ KeeperIdle /\ KmIdle /\ GsIdle /\ SymInit /\ StateCodecIdle /\ DocIdle /\ MainIdle /\ WriteIdle /\ SurfaceIdle

SpecSym == InitSym /\ [][SymNext]_vars

(***************************************************************************)
(* Properties                                                              *)
(***************************************************************************)
\* C1: every request with an id gets exactly one reply, in order, carrying the
\* request's id, whether its handler succeeded or failed.
C1_OneReplyPerRequest ==
    \A i \in 1..Len(ipc_in) :
        ipc_in[i].id # NoId =>
            /\ i <= Len(ipc_out)
            /\ ipc_out[i].id = ipc_in[i].id

\* C2: no request makes the dispatcher stop or panic.
C2_DispatcherNeverStops == ipc_state = "running"

\* C3: a handler's Err(e) is answered with the Error variant carrying the Debug
\* text of e, and an Ok(response) is answered with that response unchanged,
\* which is never the Error variant.
C3_UnwrapOrError ==
    /\ Len(ipc_out) = Len(ipc_res)
    /\ \A i \in 1..Len(ipc_out) :
        LET res == ipc_res[i]
            rep == ipc_out[i].kind
        IN  /\ res.tag = "Err" =>
                /\ rep.type = "Error"
                /\ rep.body = DebugFmt(res.err)
            /\ res.tag = "Ok" =>
                /\ rep = res.val
                /\ rep.type # "Error"

C3_Witness ==
    /\ \E i \in 1..Len(ipc_res) : ipc_res[i].tag = "Err"
    /\ \E j \in 1..Len(ipc_res) : ipc_res[j].tag = "Ok"

\* The keys on which two documents differ.
DiffKeys(a, b) == {k \in Keys : a[k] # b[k]}

C9_EnvelopeAuthenticated ==
    (/\ dt_op = "decrypted"
     /\ dt_dec.key = dt_key
     /\ \/ dt_enc.contract_id # dt_patch.contract_id
        \/ dt_enc.index # dt_patch.index)
    => ~dt_dec.res.ok

RECURSIVE FailedOf(_)
FailedOf(deltas) ==
    IF deltas = <<>> THEN <<>>
    ELSE IF deltas[1].stores THEN FailedOf(Tail(deltas))
         ELSE <<deltas[1]>> \o FailedOf(Tail(deltas))

C12_SameSigningKeyAcrossBoots ==
    sk_intact =>
        /\ \A i, j \in 1..Len(sk_reported) : sk_reported[i] = sk_reported[j]
        /\ sk_gen <= 1
        /\ sk_boot.outcome = "generated" => sk_boots = 1
        /\ sk_state = "up" => (sk_file.exists /\ sk_key = sk_file.log.doc.data /\ sk_key # 0)

C12_Witness ==
    /\ sk_intact
    /\ sk_boots >= 2
    /\ sk_boot.outcome = "loaded"
    /\ Len(sk_reported) >= 2

WasmExecuted == wm_op \in {"execute_call", "execute_constructor"}

\* C14: whatever step of the pipeline fails, execute_call / execute_constructor
\* return an ExecutionError instead of panicking, and the persisted state is
\* the one from before the call.
C14_ExecutorFailsClosed ==
    WasmExecuted =>
        /\ wm_out.tag # "panic"
        /\ wm_out.tag = "Err" => wm_out.error = "ExecutionError"
        /\ wm_out.tag # "Ok" => wm_stored = wm_in.state

\* C15: a module that decodes and has a memory section with an entry is
\* rejected with an ExecutionError right after the memory-section check, before
\* gas instrumentation and stack limiting; without such an entry the check is
\* passed and instrumentation is reached.
C15_InternalMemoryRejectedFirst ==
    (WasmExecuted /\ wm_in.code.decodes) =>
        /\ wm_in.code.mem_section = "one" =>
            /\ wm_out.tag = "Err"
            /\ wm_out.error = "ExecutionError"
            /\ wm_out.steps = <<"deserialize", "memory_section">>
        /\ wm_in.code.mem_section \in {"none", "empty"} =>
            /\ wm_out.err # "internal memory"
            /\ Len(wm_out.steps) >= 3
            /\ wm_out.steps[2] = "memory_section"
            /\ wm_out.steps[3] = "inject_gas_counter"

C15_Witness ==
    /\ wm_op = "execute_call"
    /\ wm_in.code.mem_section = "one"
    /\ wm_in.code.transform = "gas_fails"
    /\ wm_out.tag = "Err"

\* C16: resolve_func succeeds for exactly the names write_state, read_state,
\* from_memory and ret, and fails with an Instantiation error for any other.
C16_FourHostFunctions ==
    wm_op = "resolve_func" =>
        /\ wm_out.tag = "Ok" <=>
            wm_in.code.func_import \in {"write_state", "read_state", "from_memory", "ret"}
        /\ wm_out.tag # "Ok" => wm_out.error = "Instantiation"

\* C17: resolve_memory accepts only an import named memory whose initial size
\* and maximum are within the limit; a larger initial size, a larger maximum
\* or another name is an Instantiation error; a failure records no memory.
C17_ResolveMemory ==
    wm_op = "resolve_memory" =>
        LET mi == wm_in.code.mem_import IN
        /\ wm_out.tag = "Ok" =>
            /\ mi.name = "memory"
            /\ mi.initial <= 64
            /\ mi.maximum <= 64
            /\ wm_memory.set
        /\ (mi.name # "memory" \/ mi.initial > 64 \/ mi.maximum > 64) =>
            /\ wm_out.tag = "Err"
            /\ wm_out.error = "Instantiation"
        /\ wm_out.tag = "Err" => wm_memory = NoMemory

C17_Witness ==
    /\ wm_op = "resolve_memory"
    /\ wm_in.code.mem_import.name = "memory"
    /\ wm_in.code.mem_import.initial = 1
    /\ wm_in.code.mem_import.maximum = 65
    /\ wm_out.error = "Instantiation"
    /\ ~wm_memory.set

\* Eight times the gas of a body when an instruction costs its table entry
\* times 3 / 8 and a grown page 8192.
RECURSIVE ScaledGasTimes8(_)
ScaledGasTimes8(body) ==
    IF body = <<>> THEN 0
    ELSE (CASE body[1] = "regular" -> 3 * 1
            [] body[1] = "div" -> 3 * 16
            [] body[1] = "mul" -> 3 * 4
            [] body[1] \in {"load", "store"} -> 3 * 2
            [] body[1] = "grow" -> 8 * 8192)
         + ScaledGasTimes8(Tail(body))

\* C18: the gas charged for a run is, per instruction, the table entry cost
\* (regular 1, div 16, mul 4, load/store 2) times 3 / 8, and 8192 per page of
\* memory grown.
C18_GasScaledByMulDiv ==
    (WasmExecuted /\ wm_out.tag = "Ok") =>
        8 * wm_out.used_gas = ScaledGasTimes8(wm_in.code.body)

\* C19: two runs of get_selected_workers with the same seed, workers, stakes,
\* contract address and group size end the same way and return the same list
\* in the same order, whatever block number and nonce the node's WorkerParams
\* hold and on whichever node the run happens.
C19_SelectionDeterministic ==
    \A n \in Nodes : \A m \in Nodes :
        (ws_out[n] # NoSelection /\ ws_out[m] # NoSelection) => ws_out[n] = ws_out[m]

\* Both nodes returned a list of at least two workers while holding different
\* nonces in their WorkerParams.
C19_Witness ==
    /\ ws_local["node1"].nonce # ws_local["node2"].nonce
    /\ \A n \in Nodes : ws_out[n].tag = "Ok" /\ Len(ws_out[n].workers) >= 2

\* The reference algorithm: the random value of the round with selection nonce n.
RefRandom(n) ==
    Keccak256(EncodeToken([seed |-> ws_in.seed, sc_addr |-> ws_in.sc_addr, nonce |-> n]))
        % SumOf(ws_in.balances)

\* The reference algorithm: the pick of the round with selection nonce n.
RefPick(n) ==
    LET hit == {i \in 1..Len(ws_in.workers) :
                    RefRandom(n) - SumOf(SubSeq(ws_in.balances, 1, i)) <= 0}
    IN  IF hit = {} THEN ws_in.workers[Len(ws_in.workers)]
        ELSE ws_in.workers[CHOOSE i \in hit : \A j \in hit : i <= j]

\* The reference algorithm: the list after the rounds with nonces 0 .. k-1.
RECURSIVE RefSelected(_)
RefSelected(k) ==
    IF k = 0 THEN <<>>
    ELSE LET before == RefSelected(k - 1) IN
         IF InList(RefPick(k - 1), before) THEN before ELSE Append(before, RefPick(k - 1))

C21_Limit == IF ws_in.group_size \in {NoGroupSize, 0} THEN 1 ELSE ws_in.group_size

\* C21 (as amended): a list returned by get_selected_workers has no duplicates,
\* holds only workers of the epoch, and has exactly group_size elements, or
\* exactly one when no group size or a group size of 0 is given.
C21_SelectionShape ==
    \A n \in Nodes :
        ws_out[n].tag = "Ok" =>
            LET list == ws_out[n].workers IN
            /\ \A i \in 1..Len(list) : \A j \in 1..Len(list) : list[i] = list[j] => i = j
            /\ \A i \in 1..Len(list) : InList(list[i], ws_in.workers)
            /\ Len(list) = C21_Limit

\* A node returned one worker for a group size of 0.
C21_Witness ==
    \E n \in Nodes :
        /\ ws_out[n].tag = "Ok"
        /\ ws_in.group_size = 0
        /\ Len(ws_out[n].workers) = 1

\* C21 (as stated): a list returned by get_selected_workers has no duplicates,
\* holds only workers of the epoch, and has exactly group_size elements
\* (exactly one when no group size is given).
C21_ExactlyGroupSize ==
    \A n \in Nodes :
        ws_out[n].tag = "Ok" =>
            LET list == ws_out[n].workers IN
            /\ \A i \in 1..Len(list) : \A j \in 1..Len(list) : list[i] = list[j] => i = j
            /\ \A i \in 1..Len(list) : InList(list[i], ws_in.workers)
            /\ Len(list) = IF ws_in.group_size = NoGroupSize THEN 1 ELSE ws_in.group_size

\* The worker parameters of the epoch are ones selection cannot work on:
\* different lengths, no workers, or a stake total of zero.
EpochParamsInvalid ==
    /\ ep_epoch.worker_params # <<>>
    /\ LET params == ep_epoch.worker_params[1] IN
       \/ Len(params.workers) # Len(params.balances)
       \/ Len(params.workers) = 0
       \/ SumOf(params.balances) = 0

\* C22: an epoch holds worker parameters only if workers and stakes have the
\* same length, and a selection on invalid or missing parameters returned a
\* WorkerAuthError (it did not panic, and it did not return a list).
C22_InvalidParamsRefused ==
    /\ ep_epoch.worker_params # <<>> =>
           Len(ep_epoch.worker_params[1].workers) = Len(ep_epoch.worker_params[1].balances)
    /\ (ep_last.op = "get_selected_workers" /\ (EpochParamsInvalid \/ ep_epoch.worker_params = <<>>)) =>
           ep_last.result.tag = "WorkerAuthError"

\* C25: a call of Epoch::set_worker_params on an epoch that has worker
\* parameters returns WorkerAuthError and leaves the epoch as it was; a call on
\* an epoch without parameters returns Ok and stores the parameters handed
\* over, leaving the seed alone; and no other call changes the epoch.
C25_EpochImmutableOnceSet ==
    [][/\ ep_epoch.worker_params # <<>> => ep_epoch' = ep_epoch
       /\ ep_epoch'.seed = ep_epoch.seed
       /\ ep_last'.op = "set_worker_params" =>
             IF ep_epoch.worker_params # <<>>
             THEN ep_last'.result.tag = "WorkerAuthError"
             ELSE /\ ep_last'.result.tag = "Ok"
                  /\ ep_epoch'.worker_params = ep_last'.params]_vars

\* A second set_worker_params with other parameters was refused and the first
\* parameters are still in the epoch.
C25_Witness ==
    /\ ep_last.op = "set_worker_params"
    /\ ep_last.result.tag = "WorkerAuthError"
    /\ ep_epoch.worker_params # <<>>
    /\ ep_epoch.worker_params # ep_last.params

\* The last call of set_worker_params succeeded and was given a previous
\* epoch state / was given none.
KeeperReused == kp_last.called /\ kp_last.ok /\ kp_last.epoch_state # <<>>
KeeperCreated == kp_last.called /\ kp_last.ok /\ kp_last.epoch_state = <<>>

C26_UserKeyStoredOrUnchanged ==
    km_last.called =>
        IF km_last.result.ok
        THEN /\ dh_keys[km_last.user_pubkey] = GetAesKey(km_last.keys, km_last.user_pubkey)
             /\ \A u \in UserPubKeys : km_last.before[u] # GetAesKey(km_last.keys, u)
             /\ \A u \in UserPubKeys \ {km_last.user_pubkey} : dh_keys[u] = km_last.before[u]
             /\ km_last.result.msg = UserMessage(km_last.keys)
             /\ km_last.result.sig = Sign(SIGNINING_KEY, km_last.result.msg)
        ELSE /\ km_last.result.err # ""
             /\ dh_keys = km_last.before

\* A second successful NewTaskEncryptionKey for a user replaced that user's key.
C26_Witness ==
    /\ km_last.called
    /\ km_last.result.ok
    /\ km_last.before[km_last.user_pubkey] # NoDhKey

\* C27: a step that changes DH_KEYS is a NewTaskEncryptionKey call and changes
\* only the entry of its user; a step that changes STATE_KEYS is a PTTResponse
\* whose response opened, and changes only entries the response carries a valid
\* key for; no other request changes either table.
C27_KeyTablesFrame ==
    [][/\ dh_keys' # dh_keys =>
            /\ km_pairs' = km_pairs + 1
            /\ km_last'.called
            /\ \A u \in UserPubKeys : dh_keys'[u] # dh_keys[u] => u = km_last'.user_pubkey
       /\ state_keys' # state_keys =>
            /\ ptt_n' = ptt_n + 1
            /\ ptt_last'.opened
            /\ \A a \in Addrs : state_keys'[a] # state_keys[a] =>
                   \E e \in ptt_last'.entries : e.address = a /\ e.valid /\ e.key = state_keys'[a]]_vars

\* A PTTResponse installed a key and a get_state then returned a state.
C27_Witness ==
    /\ \E a \in Addrs : state_keys[a] # NoKey
    /\ gs_pc = "idle"
    /\ gs_result.tag = "Ok"

\* C28: while get_state's call into the host is in progress the STATE_KEYS
\* mutex is not held.
C28_NoLockAcrossOcall == gs_pc = "ocall" => ~gs_guard

\* C29: get_state for an address without a key in STATE_KEYS returns
\* MissingKeyError and has made no read of the host DB; a state is returned
\* only for an address whose key is present.
C29_MissingKeyNoRead ==
    /\ (gs_pc = "idle" /\ gs_n > 0 /\ state_keys[gs_addr] = NoKey) =>
           gs_result.tag = "MissingKeyError"
    /\ gs_result.tag = "MissingKeyError" => gs_reads = 0
    /\ gs_result.tag = "Ok" => (state_keys[gs_addr] # NoKey /\ gs_reads = 1)

\* A get_state returned MissingKeyError for one address after a get_state
\* could have read another.
C29_Witness ==
    /\ gs_pc = "idle"
    /\ gs_result.tag = "MissingKeyError"
    /\ \E a \in Addrs : state_keys[a] # NoKey /\ gs_db[a] # NoEncState

\* C30: encrypt_with_nonce(m, k, n) returns a ciphertext for every message,
\* key and nonce, and decrypt of the bytes that encrypt_with_nonce or encrypt
\* (with a nonce from the random source) returned, under the same key, returns
\* Ok(m).
C30_EncryptDecryptRoundTrip ==
    /\ (sy_op # "idle" /\ sy_in.iv # <<>>) => sy_enc.ok
    /\ (sy_op = "decrypt" /\ sy_dec.cipheriv = sy_enc.val /\ sy_dec.key = sy_in.key) =>
           sy_dec.result = SymOk(sy_in.message)

\* A message of the greatest length went through encrypt, with a nonce from
\* the random source, and came back from decrypt.
C30_Witness ==
    /\ sy_op = "decrypt"
    /\ sy_in.iv = <<>>
    /\ Len(sy_in.message) = MaxLen
    /\ sy_dec.cipheriv = sy_enc.val
    /\ sy_dec.key = sy_in.key
    /\ sy_dec.result.ok

\* C31: every output of encrypt_with_nonce is 16 + 12 bytes longer than the
\* message, and its last 12 bytes are the nonce that was used: the one the
\* caller supplied when there is one, the one from the random source otherwise.
C31_LengthAndTrailingNonce ==
    (sy_op # "idle" /\ sy_enc.ok) =>
        /\ Len(sy_enc.val) = Len(sy_in.message) + 16 + 12
        /\ SubSeq(sy_enc.val, Len(sy_enc.val) - 11, Len(sy_enc.val)) =
               (IF sy_in.iv # <<>> THEN sy_in.iv[1] ELSE sy_in.random[1])

\* A message of the greatest length was encrypted under a supplied nonce while
\* the random source held a different one.
C31_Witness ==
    /\ sy_op = "encrypt"
    /\ sy_enc.ok
    /\ Len(sy_in.message) = MaxLen
    /\ sy_in.iv # <<>>
    /\ sy_in.random # <<>>
    /\ sy_in.random # sy_in.iv

\* C32: decrypt returns ImproperEncryption exactly for the inputs shorter than
\* 12 bytes; an input of 12 bytes or more whose tag does not verify under the
\* key and the trailing nonce, one too short to hold a tag included, returns
\* DecryptionError and no plaintext.
C32_DecryptErrors ==
    sy_op = "decrypt" =>
        LET c == sy_dec.cipheriv
            ct == SubSeq(c, 1, Len(c) - 12)
            nonce == SubSeq(c, Len(c) - 11, Len(c))
            authentic == /\ Len(ct) >= 16
                         /\ SubSeq(ct, Len(ct) - 15, Len(ct)) = TagOf(SubSeq(ct, 1, Len(ct) - 16), sy_dec.key, nonce)
        IN  /\ (sy_dec.result = SymErr("ImproperEncryption")) <=> (Len(c) < 12)
            /\ (Len(c) >= 12 /\ ~authentic) => sy_dec.result = SymErr("DecryptionError")
            /\ sy_dec.result.ok \/ sy_dec.result.err \in {"ImproperEncryption", "DecryptionError"}

\* decrypt was handed exactly 12 bytes, a nonce and nothing else, and
\* returned DecryptionError.
C32_Witness ==
    /\ sy_op = "decrypt"
    /\ Len(sy_dec.cipheriv) = 12
    /\ sy_dec.result = SymErr("DecryptionError")

C34_SealRoundTrip ==
    (sd_op = "unsealed" /\ sd_res.seal = "Ok" /\ sd_res.save = "Ok" /\ sd_res.load = "Ok") =>
        /\ sd_res.unseal = "Some"
        /\ sd_res.doc = sd_doc

\* C35: the worker process ends with a non-zero exit code exactly when the
\* initialization of the trusted region or the opening of the transport
\* failed; a failure while a request is handled does not end it.
C35_ExitCodes ==
    mn_pc = "exited" =>
        /\ mn_cause \in {"init", "transport"}
        /\ mn_exit # 0

C37_SelectionTerminates ==
    \A n \in Nodes :
        (ws_out[n] # NoSelection /\ Len(ws_in.workers) >= 1 /\ SumOf(ws_in.balances) > 0) =>
            ws_out[n].tag # "diverges"

\* C38: with a positive stake total, no worker that get_selected_workers
\* selects has a stake of 0.
C38_NoZeroStakeSelected ==
    \A n \in Nodes :
        (ws_out[n] # NoSelection /\ ws_out[n].tag # "panic" /\ SumOf(ws_in.balances) > 0) =>
            \A k \in 1..Len(ws_out[n].workers) :
                \A i \in 1..Len(ws_in.workers) :
                    ws_in.workers[i] = ws_out[n].workers[k] => ws_in.balances[i] # 0

\* C39: after any sequence of key requests DH_KEYS holds, for every user
\* public key, the shared key of the most recent successful
\* NewTaskEncryptionKey for it, and nothing for a user without one.
C39_LastRequestWins ==
    \A u \in UserPubKeys :
        dh_keys[u] = IF km_recent[u] = "" THEN NoDhKey ELSE GetAesKey(km_recent[u], u)

\* A second successful request for a user replaced the key of the first,
\* while the other user has none.
C39_Witness ==
    /\ km_pairs = 2
    /\ km_last.result.ok
    /\ km_last.before[km_last.user_pubkey] # NoDhKey
    /\ km_recent[km_last.user_pubkey] = km_last.keys
    /\ \E u \in UserPubKeys : km_recent[u] = ""

\* C40: the loop of the legacy surface server is left only on a stop
\* command, after the reply { errored: false, reason: "stop request." } was
\* sent; every other command leaves it running, an unrecognized one answered
\* with errored = false and the command received.
C40_OnlyStopEndsLoop ==
    /\ sv_state # "running" =>
           /\ sv_in[Len(sv_in)].cmd = <<"stop">>
           /\ sv_out # <<>>
           /\ sv_out[Len(sv_out)] = [errored |-> FALSE, reason |-> "stop request."]
    /\ (sv_in # <<>> /\ sv_in[Len(sv_in)].cmd = <<"nosuchcmd">>) =>
           /\ sv_last.tag = "Ok"
           /\ sv_out[Len(sv_out)] = [errored |-> FALSE, received |-> <<"json", "nosuchcmd">>]

====
